---- MODULE Spec2Model ----
(***************************************************************************)
(* The playback arbiter of metronome-rs (src/src/metronome.rs): the        *)
(* process-wide registry GLOBAL_METRONOME, the shared running flag of      *)
(* every Metronome, the calls start / stop / stop_global_metronome made    *)
(* from several caller threads, and the tick loops they spawn.             *)
(*                                                                         *)
(* Every atomic load or store of the code is one step; the registry mutex  *)
(* is acquired by the first step of a critical section and released by a   *)
(* step of its own.  The Relaxed loads and stores are taken in one total   *)
(* order (each flag is a single location and the code orders no two        *)
(* locations by them).                                                     *)
(*                                                                         *)
(* These specifications share the steps:                                  *)
(*   Spec        the arbiter: callers and the loops they spawn;            *)
(*   SpecTick    one caller and the loop of its latest start, followed     *)
(*               with the locals of run_metronome (counters, tick period,  *)
(*               tone), for metronomes configured through the constructors *)
(*               and setters and the presets of src/src/accent.rs;         *)
(*   SpecPlay    the arbiter with one call of a helper function: one that  *)
(*               plays for a duration (play_metronome_for_duration,        *)
(*               play_custom_metronome_for_duration) or one that starts    *)
(*               and returns (start_metronome_with_time_signature,         *)
(*               start_custom_metronome);                                  *)
(*   SpecConfig  the constructors applied to every argument;               *)
(*   SpecBuilder the builder methods of AccentConfig applied to every      *)
(*               configuration;                                            *)
(*   SpecWave    the waveform sampler of the tone module applied to every  *)
(*               shape and phase;                                          *)
(*   SpecSnap    SpecTick with the setters called at any time, also while  *)
(*               the loop plays;                                           *)
(*   SpecNew     the constructors called from several threads, each one a  *)
(*               fetch_add on METRONOME_ID_COUNTER and then the build;     *)
(*   SpecWrap    the tick loop playing, its beat counter a few beats from  *)
(*               u32::MAX;                                                 *)
(*   SpecSeq     the arbiter with its calls made one at a time;            *)
(*   SpecLin     the arbiter with the history of its calls.                *)
(***************************************************************************)
EXTENDS Integers, Sequences, FiniteSets, TLC

\* ---------------------------------------------------------------- bounds
NumThreads == 2         \* caller threads
NumMetronomes == 2      \* constructor calls made before playback begins
NumClones == 1          \* clones callers made of the constructed values
MaxLoops == 2           \* calls of start, each of which spawns one tick loop
NumOthers == 1          \* metronomes the callers hold beside a helper's own

Threads == 1..NumThreads

VARIABLES
    counter,      \* METRONOME_ID_COUNTER
    is_playing,   \* the AtomicBool cells behind the Arc<AtomicBool> pointers
    handles,      \* the Metronome values held by callers
    origin,       \* history: origin[h] = the handle h was cloned from, 0 for a constructed one
    global,       \* GLOBAL_METRONOME: << >> is None, <<m>> is Some(m)
    mutex,        \* the thread holding GLOBAL_METRONOME's lock, 0 when free
    pc,           \* per caller thread: its position in the call it executes
    arg,          \* per caller thread: the handle (&self) of its call, 0 for none
    current,      \* per caller thread: the Option taken from the registry
    loops,        \* the spawned tick-loop threads
    must_exit,    \* history, per loop: the returned calls that asked it to end
    cur,          \* history, per caller thread: the call in progress
    last,         \* history: the call that returned last, no call begun since
    tk,           \* the locals of the tick loop spawned last (run_metronome)
    helper,       \* the call of play_*_for_duration in progress
    call,         \* the last call of a pure function: its arguments and result
    fetched,      \* per caller thread: the id a constructor in progress has drawn
    hist          \* history: the calls of start, stop and stop_all, in the order they began

vars == <<counter, is_playing, handles, origin, global, mutex, pc, arg,
          current, loops, must_exit, cur, last, tk, helper, call, fetched, hist>>

\* The variables the steps of start, stop and stop_global_metronome and of
\* the loops leave alone.
ext == <<tk, helper, call, fetched, hist>>

\* Option<T> is a sequence of length 0 (None) or 1 (Some).
None == << >>
Some(x) == <<x>>
IsSome(o) == Len(o) = 1
Unwrap(o) == o[1]

\* ---------------------------------------------------------- Metronome
\* A Metronome value: `id` is the number behind Arc<AtomicU64> (never stored
\* to after construction), `flag` the address of the AtomicBool behind
\* its Arc<AtomicBool>.
\* A constructor that creates the flag set.
NewMetronomePlaying(next_id, heap) ==
    [obj  |-> [id |-> next_id, flag |-> Len(heap) + 1],
     heap |-> Append(heap, TRUE)]

\* is_playing: Arc::new(AtomicBool::new(false)), id: Arc::new(AtomicU64::new(
\* METRONOME_ID_COUNTER.fetch_add(1, Relaxed)))
NewMetronome(next_id, heap) ==
    [obj  |-> [id |-> next_id, flag |-> Len(heap) + 1],
     heap |-> Append(heap, FALSE)]

\* A derived Clone that deep-copies the flag instead of cloning the Arc.
CloneDeepCopy(m, heap) ==
    [obj  |-> [m EXCEPT !.flag = Len(heap) + 1],
     heap |-> Append(heap, heap[m.flag])]

\* #[derive(Clone)]: both Arc pointers are cloned, no cell is allocated; the
\* other fields are copied.
CloneMetronome(m, heap) ==
    [obj |-> m, heap |-> heap]

\* Metronome::is_playing
IsPlaying(m) == is_playing[m.flag]

\* get_global_metronome: a clone of the Arc the registry holds, if any.
get_global_metronome == global

\* ------------------------------------------------------------- history
\* The record of a call that runs alone (no other call in progress at any
\* time during it): the operation, the handle it was called on, and the
\* registry and the running flags as they were when it began, and `after`,
\* the call that had returned last when it began (none if another call
\* was begun in between).
NoPrior == [op |-> "none", g0 |-> << >>, f0 |-> << >>]

NoCall == [op |-> "none", h |-> 0, g0 |-> None, f0 |-> << >>, after |-> NoPrior]

Idle(t) == pc[t] = "idle"

\* Thread t begins the call op on handle h. It runs alone so far iff every
\* other thread is idle; a call already in progress is alone no longer, and
\* no call is the last returned one any more.
Begin(t, op, h) ==
    /\ cur' = [u \in Threads |->
                 IF u = t /\ \A v \in Threads \ {t} : Idle(v)
                 THEN [op |-> op, h |-> h, g0 |-> global, f0 |-> is_playing,
                       after |-> [op |-> last.op, g0 |-> last.g0,
                                  f0 |-> last.f0]]
                 ELSE NoCall]
    /\ last' = NoCall

\* Thread t returns from its call.
Return(t) ==
    /\ last' = cur[t]
    /\ cur' = [cur EXCEPT ![t] = NoCall]

Live(l) == loops[l].pc \in {"check", "tone", "sleep"}

\* A call that ran alone returns: the live tick loops of the metronome with
\* identity id are expected to end at their next loop check.
Mark(t, id, why) ==
    [l \in 1..Len(loops) |->
        IF cur[t] # NoCall /\ loops[l].m.id = id /\ Live(l)
        THEN must_exit[l] \cup {why}
        ELSE must_exit[l]]

\* --------------------------------------------------------- construction
\* n calls of Metronome::new / new_with_accent / with_device_config, each
\* taking its identity from METRONOME_ID_COUNTER.fetch_add(1), which starts
\* at 0.
RECURSIVE Construct(_)
Construct(n) ==
    IF n = 0
    THEN [handles |-> << >>, heap |-> << >>, counter |-> 0]
    ELSE LET s == Construct(n - 1)
             r == NewMetronome(s.counter, s.heap)
         IN  [handles |-> Append(s.handles, r.obj), heap |-> r.heap,
              counter |-> s.counter + 1]

\* The callers then clone the values from[1], from[2], ...
RECURSIVE CloneAll(_, _)
CloneAll(s, from) ==
    IF from = << >>
    THEN s
    ELSE LET r == CloneMetronome(s.handles[Head(from)], s.heap)
         IN  CloneAll([s EXCEPT !.handles = Append(@, r.obj), !.heap = r.heap],
                      Tail(from))

\* No tick loop is followed; no helper call is in progress.
NoTick == [pc |-> "none"]

NoPure == [fn |-> "none"]

NoHelper ==
    [stage |-> "none", t |-> 0, h |-> 0, ctor |-> "none", bpm |-> 0,
     beats_per_measure |-> << >>, accent_config |-> << >>,
     g0 |-> << >>, f0 |-> << >>]

\* ---------------------------------------------------------------- Init
\* The state once the callers have constructed and cloned their metronomes:
\* nothing is registered and no flag is set.
Init ==
    /\ \E from \in [1..NumClones -> 1..NumMetronomes] :
         LET s == CloneAll(Construct(NumMetronomes), from) IN
            /\ counter = s.counter
            /\ is_playing = s.heap
            /\ handles = s.handles
            /\ origin = [h \in 1..NumMetronomes |-> 0] \o from
    /\ global = None
    /\ mutex = 0
    /\ pc = [t \in Threads |-> "idle"]
    /\ arg = [t \in Threads |-> 0]
    /\ current = [t \in Threads |-> None]
    /\ loops = << >>
    /\ must_exit = << >>
    /\ cur = [t \in Threads |-> NoCall]
    /\ last = NoCall
    /\ tk = NoTick
    /\ helper = NoHelper
    /\ call = NoPure
    /\ fetched = [t \in Threads |-> None]
    /\ hist = << >>

\* ------------------------------------------------------ Metronome::start
\* Calls of start begun so far; each one spawns one tick loop.
StartsBegun ==
    Len(loops) + Cardinality({t \in Threads : pc[t] \in
        {"start_unlock", "start_clear", "start_set", "start_spawn"}})

\* let mut global = GLOBAL_METRONOME.lock().unwrap();
\* let current = global.take(); *global = Some(Arc::new(self.clone()));
StartLock(t, h) ==
    /\ Idle(t)
    /\ mutex = 0
    /\ StartsBegun < MaxLoops
    /\ LET r == CloneMetronome(handles[h], is_playing) IN
        /\ global' = Some(r.obj)
        /\ is_playing' = r.heap
    /\ current' = [current EXCEPT ![t] = global]
    /\ mutex' = t
    /\ pc' = [pc EXCEPT ![t] = "start_unlock"]
    /\ arg' = [arg EXCEPT ![t] = h]
    /\ Begin(t, "start", h)
    /\ UNCHANGED <<counter, handles, origin, loops, must_exit>>

\* A start whose guard lives to the end of the function: the block ends but
\* the lock is kept while the previous holder is stopped.
StartUnlockLate(t) ==
    /\ pc[t] = "start_unlock"
    /\ pc' = [pc EXCEPT ![t] = "start_clear"]
    /\ UNCHANGED <<counter, is_playing, handles, origin, global, mutex, arg,
                   current, loops, must_exit, cur, last>>

\* The block ends: the guard is dropped.
StartUnlock(t) ==
    /\ pc[t] = "start_unlock"
    /\ mutex' = 0
    /\ pc' = [pc EXCEPT ![t] = "start_clear"]
    /\ UNCHANGED <<counter, is_playing, handles, origin, global, arg, current,
                   loops, must_exit, cur, last>>

\* A start that forgets the previous holder: its flag is left as it is.
StartClearSkipped(t) ==
    /\ pc[t] = "start_clear"
    /\ pc' = [pc EXCEPT ![t] = "start_set"]
    /\ UNCHANGED <<counter, is_playing, handles, origin, global, mutex, arg,
                   current, loops, must_exit, cur, last>>

\* if let Some(metronome) = current_metronome
\*     { metronome.is_playing.store(false, Relaxed); }
StartClear(t) ==
    /\ pc[t] = "start_clear"
    /\ is_playing' = IF IsSome(current[t])
                     THEN [is_playing EXCEPT ![Unwrap(current[t]).flag] = FALSE]
                     ELSE is_playing
    /\ pc' = [pc EXCEPT ![t] = "start_set"]
    /\ UNCHANGED <<counter, handles, origin, global, mutex, arg, current,
                   loops, must_exit, cur, last>>

\* A start that sets the flag of the metronome it took from the registry
\* (when there is one) instead of self's.
StartSetPrevious(t) ==
    /\ pc[t] = "start_set"
    /\ is_playing' = IF IsSome(current[t])
                     THEN [is_playing EXCEPT ![Unwrap(current[t]).flag] = TRUE]
                     ELSE [is_playing EXCEPT ![handles[arg[t]].flag] = TRUE]
    /\ pc' = [pc EXCEPT ![t] = "start_spawn"]
    /\ UNCHANGED <<counter, handles, origin, global, mutex, arg, current,
                   loops, must_exit, cur, last>>

\* self.is_playing.store(true, Relaxed);
StartSet(t) ==
    /\ pc[t] = "start_set"
    /\ is_playing' = [is_playing EXCEPT ![handles[arg[t]].flag] = TRUE]
    /\ pc' = [pc EXCEPT ![t] = "start_spawn"]
    /\ UNCHANGED <<counter, handles, origin, global, mutex, arg, current,
                   loops, must_exit, cur, last>>

\* let metronome = self.clone(); thread::spawn(move || metronome.run_metronome());
\* Ok(())
StartSpawn(t) ==
    /\ pc[t] = "start_spawn"
    /\ LET r == CloneMetronome(handles[arg[t]], is_playing) IN
        /\ loops' = Append(loops, [m |-> r.obj, pc |-> "check"])
        /\ is_playing' = r.heap
    /\ must_exit' = Append(IF IsSome(current[t])
                           THEN Mark(t, Unwrap(current[t]).id, "start")
                           ELSE must_exit, {})
    /\ pc' = [pc EXCEPT ![t] = "idle"]
    /\ arg' = [arg EXCEPT ![t] = 0]
    /\ current' = [current EXCEPT ![t] = None]
    /\ Return(t)
    /\ UNCHANGED <<counter, handles, origin, global, mutex>>

\* ------------------------------------------------------- Metronome::stop
\* self.is_playing.store(false, Relaxed);
\* A stop that leaves the flag as it is and only clears the registry.
StopClearSkipped(t, h) ==
    /\ Idle(t)
    /\ pc' = [pc EXCEPT ![t] = "stop_lock"]
    /\ arg' = [arg EXCEPT ![t] = h]
    /\ Begin(t, "stop", h)
    /\ UNCHANGED <<counter, is_playing, handles, origin, global, mutex, current,
                   loops, must_exit>>

\* self.is_playing.store(false, Relaxed);
StopClear(t, h) ==
    /\ Idle(t)
    /\ is_playing' = [is_playing EXCEPT ![handles[h].flag] = FALSE]
    /\ pc' = [pc EXCEPT ![t] = "stop_lock"]
    /\ arg' = [arg EXCEPT ![t] = h]
    /\ Begin(t, "stop", h)
    /\ UNCHANGED <<counter, handles, origin, global, mutex, current, loops,
                   must_exit>>

\* The comparison of stop written with != for ==.
IsCurrentNegated(g, m) == IsSome(g) /\ Unwrap(g).id # m.id

\* A stop that clears the registry whoever holds it.
IsCurrentAny(g, m) == IsSome(g)

\* The comparison of stop: the registry holds a metronome whose id is self's.
IsCurrent(g, m) == IsSome(g) /\ Unwrap(g).id = m.id

\* if let Ok(mut global) = GLOBAL_METRONOME.lock() {
\*     if let Some(current) = global.as_ref() {
\*         if current_id == self_id { *global = None; } } }
StopLock(t) ==
    /\ pc[t] = "stop_lock"
    /\ mutex = 0
    /\ mutex' = t
    /\ global' = IF IsCurrent(global, handles[arg[t]]) THEN None ELSE global
    /\ pc' = [pc EXCEPT ![t] = "stop_unlock"]
    /\ UNCHANGED <<counter, is_playing, handles, origin, arg, current, loops,
                   must_exit, cur, last>>

\* The guard is dropped and stop returns.
StopUnlock(t) ==
    /\ pc[t] = "stop_unlock"
    /\ mutex' = 0
    /\ must_exit' = Mark(t, handles[arg[t]].id, "stop")
    /\ pc' = [pc EXCEPT ![t] = "idle"]
    /\ arg' = [arg EXCEPT ![t] = 0]
    /\ Return(t)
    /\ UNCHANGED <<counter, is_playing, handles, origin, global, current, loops>>

\* ------------------------------------------------- stop_global_metronome
\* let mut global = GLOBAL_METRONOME.lock().unwrap(); global.take()
StopAllLock(t) ==
    /\ Idle(t)
    /\ mutex = 0
    /\ mutex' = t
    /\ current' = [current EXCEPT ![t] = global]
    /\ global' = None
    /\ pc' = [pc EXCEPT ![t] = "stop_all_unlock"]
    /\ Begin(t, "stop_all", 0)
    /\ UNCHANGED <<counter, is_playing, handles, origin, arg, loops, must_exit>>

StopAllUnlock(t) ==
    /\ pc[t] = "stop_all_unlock"
    /\ mutex' = 0
    /\ pc' = [pc EXCEPT ![t] = "stop_all_clear"]
    /\ UNCHANGED <<counter, is_playing, handles, origin, global, arg, current,
                   loops, must_exit, cur, last>>

\* A stop_all that empties the registry and leaves the flag of the holder
\* it took as it is.
StopAllClearSkipped(t) ==
    /\ pc[t] = "stop_all_clear"
    /\ pc' = [pc EXCEPT ![t] = "idle"]
    /\ current' = [current EXCEPT ![t] = None]
    /\ Return(t)
    /\ UNCHANGED <<counter, is_playing, handles, origin, global, mutex, arg,
                   loops, must_exit>>

\* if let Some(metronome) = metronome
\*     { metronome.is_playing.store(false, Relaxed); }
StopAllClear(t) ==
    /\ pc[t] = "stop_all_clear"
    /\ is_playing' = IF IsSome(current[t])
                     THEN [is_playing EXCEPT ![Unwrap(current[t]).flag] = FALSE]
                     ELSE is_playing
    /\ pc' = [pc EXCEPT ![t] = "idle"]
    /\ current' = [current EXCEPT ![t] = None]
    /\ Return(t)
    /\ UNCHANGED <<counter, handles, origin, global, mutex, arg, loops, must_exit>>

\* ------------------------------------------------ Metronome::run_metronome
\* while self.is_playing.load(Relaxed) { ... }
\* A loop condition that never reads the flag: `loop` in place of `while`.
LoopCheckBlind(l) ==
    /\ loops[l].pc = "check"
    /\ loops' = [loops EXCEPT ![l].pc = "tone"]
    /\ must_exit' = [must_exit EXCEPT ![l] = {}]
    /\ UNCHANGED <<counter, is_playing, handles, origin, global, mutex, pc,
                   arg, current, cur, last>>

LoopCheck(l) ==
    /\ loops[l].pc = "check"
    /\ loops' = [loops EXCEPT ![l].pc =
                    IF IsPlaying(loops[l].m) THEN "tone" ELSE "exited"]
    /\ must_exit' = [must_exit EXCEPT ![l] = {}]
    /\ UNCHANGED <<counter, is_playing, handles, origin, global, mutex, pc,
                   arg, current, cur, last>>

\* play_beep_with_wave_type_and_volume returned Ok: the counters advance.
LoopToneOk(l) ==
    /\ loops[l].pc = "tone"
    /\ loops' = [loops EXCEPT ![l].pc = "sleep"]
    /\ UNCHANGED <<counter, is_playing, handles, origin, global, mutex, pc,
                   arg, current, must_exit, cur, last>>

\* A loop that takes its metronome out of the registry when rendering fails.
LoopToneErrDeregisters(l) ==
    /\ loops[l].pc = "tone"
    /\ loops' = [loops EXCEPT ![l].pc = "failed"]
    /\ global' = IF IsCurrent(global, loops[l].m) THEN None ELSE global
    /\ UNCHANGED <<counter, is_playing, handles, origin, mutex, pc,
                   arg, current, must_exit, cur, last>>

\* It returned Err(e): eprintln!, break.
LoopToneErr(l) ==
    /\ loops[l].pc = "tone"
    /\ loops' = [loops EXCEPT ![l].pc = "failed"]
    /\ UNCHANGED <<counter, is_playing, handles, origin, global, mutex, pc,
                   arg, current, must_exit, cur, last>>

\* thread::sleep(sleep_duration) is over; back to the loop condition.
LoopSleep(l) ==
    /\ loops[l].pc = "sleep"
    /\ loops' = [loops EXCEPT ![l].pc = "check"]
    /\ UNCHANGED <<counter, is_playing, handles, origin, global, mutex, pc,
                   arg, current, must_exit, cur, last>>

\* ----------------------------------------------------------- AccentConfig
\* src/src/accent.rs.  Frequencies (f32, hertz) and volumes (f32) are written
\* in hundredths, which represents every literal of the file exactly:
\* 523.25 Hz is 52325, 0.7 is 70.  Durations are milliseconds (u64).
WaveType == {"Sine", "Square", "Sawtooth", "Triangle"}

\* impl Default for AccentConfig
AccentConfig_default ==
    [accent_frequency |-> 88000, regular_frequency |-> 44000,
     accent_duration |-> 150, regular_duration |-> 100,
     accent_wave_type |-> "Sine", regular_wave_type |-> "Sine",
     subdivisions |-> 1, subdivision_frequency |-> 52325,
     subdivision_duration |-> 80, subdivision_wave_type |-> "Sine",
     subdivision_volume |-> 70]

subtle ==
    [accent_frequency |-> 66000, regular_frequency |-> 44000,
     accent_duration |-> 120, regular_duration |-> 100,
     accent_wave_type |-> "Sine", regular_wave_type |-> "Sine",
     subdivisions |-> 1, subdivision_frequency |-> 52325,
     subdivision_duration |-> 80, subdivision_wave_type |-> "Sine",
     subdivision_volume |-> 70]

strong ==
    [accent_frequency |-> 176000, regular_frequency |-> 44000,
     accent_duration |-> 200, regular_duration |-> 80,
     accent_wave_type |-> "Sine", regular_wave_type |-> "Sine",
     subdivisions |-> 1, subdivision_frequency |-> 52325,
     subdivision_duration |-> 80, subdivision_wave_type |-> "Sine",
     subdivision_volume |-> 70]

strong_square ==
    [accent_frequency |-> 176000, regular_frequency |-> 44000,
     accent_duration |-> 200, regular_duration |-> 80,
     accent_wave_type |-> "Square", regular_wave_type |-> "Sine",
     subdivisions |-> 1, subdivision_frequency |-> 52325,
     subdivision_duration |-> 80, subdivision_wave_type |-> "Sine",
     subdivision_volume |-> 70]

subtle_triangle ==
    [accent_frequency |-> 66000, regular_frequency |-> 44000,
     accent_duration |-> 120, regular_duration |-> 100,
     accent_wave_type |-> "Triangle", regular_wave_type |-> "Triangle",
     subdivisions |-> 1, subdivision_frequency |-> 52325,
     subdivision_duration |-> 80, subdivision_wave_type |-> "Sine",
     subdivision_volume |-> 70]

with_eighth_notes ==
    [accent_frequency |-> 88000, regular_frequency |-> 44000,
     accent_duration |-> 150, regular_duration |-> 100,
     accent_wave_type |-> "Sine", regular_wave_type |-> "Sine",
     subdivisions |-> 2, subdivision_frequency |-> 58733,
     subdivision_duration |-> 70, subdivision_wave_type |-> "Sine",
     subdivision_volume |-> 65]

with_sixteenth_notes ==
    [accent_frequency |-> 88000, regular_frequency |-> 44000,
     accent_duration |-> 150, regular_duration |-> 100,
     accent_wave_type |-> "Sine", regular_wave_type |-> "Sine",
     subdivisions |-> 4, subdivision_frequency |-> 65925,
     subdivision_duration |-> 80, subdivision_wave_type |-> "Square",
     subdivision_volume |-> 55]

with_triplets ==
    [accent_frequency |-> 88000, regular_frequency |-> 44000,
     accent_duration |-> 150, regular_duration |-> 100,
     accent_wave_type |-> "Sine", regular_wave_type |-> "Sine",
     subdivisions |-> 3, subdivision_frequency |-> 52325,
     subdivision_duration |-> 65, subdivision_wave_type |-> "Triangle",
     subdivision_volume |-> 60]

practice_subdivisions ==
    [accent_frequency |-> 88000, regular_frequency |-> 44000,
     accent_duration |-> 150, regular_duration |-> 100,
     accent_wave_type |-> "Sine", regular_wave_type |-> "Sine",
     subdivisions |-> 2, subdivision_frequency |-> 58733,
     subdivision_duration |-> 80, subdivision_wave_type |-> "Sine",
     subdivision_volume |-> 75]

technical_subdivisions ==
    [accent_frequency |-> 104650, regular_frequency |-> 52325,
     accent_duration |-> 120, regular_duration |-> 80,
     accent_wave_type |-> "Square", regular_wave_type |-> "Sine",
     subdivisions |-> 4, subdivision_frequency |-> 69846,
     subdivision_duration |-> 70, subdivision_wave_type |-> "Square",
     subdivision_volume |-> 60]

\* AccentConfig::with_custom_subdivisions: the three arguments are stored as
\* given, the other fields are literals.
with_custom_subdivisions(subdivisions, subdivision_frequency, subdivision_volume) ==
    [accent_frequency |-> 88000, regular_frequency |-> 44000,
     accent_duration |-> 150, regular_duration |-> 100,
     accent_wave_type |-> "Sine", regular_wave_type |-> "Sine",
     subdivisions |-> subdivisions,
     subdivision_frequency |-> subdivision_frequency,
     subdivision_duration |-> 70, subdivision_wave_type |-> "Sine",
     subdivision_volume |-> subdivision_volume]

\* The builder method: self.subdivisions = subdivisions; self
set_subdivisions(self, subdivisions) ==
    [self EXCEPT !.subdivisions = subdivisions]

\* self.subdivision_frequency = frequency; self
set_subdivision_frequency(self, frequency) ==
    [self EXCEPT !.subdivision_frequency = frequency]

\* A set_subdivision_volume pasted from the method above it, the field name
\* left as it was.
set_subdivision_volume_pasted(self, volume) ==
    [self EXCEPT !.subdivision_frequency = volume]

\* self.subdivision_volume = volume; self
set_subdivision_volume(self, volume) ==
    [self EXCEPT !.subdivision_volume = volume]

\* self.subdivision_wave_type = wave_type; self
set_subdivision_wave_type(self, wave_type) ==
    [self EXCEPT !.subdivision_wave_type = wave_type]

\* The configurations without arguments.
Presets ==
    {AccentConfig_default, subtle, strong, strong_square, subtle_triangle,
     with_eighth_notes, with_sixteenth_notes, with_triplets,
     practice_subdivisions, technical_subdivisions}


\* ------------------------------------------------- configured metronomes
\* Metronome::new_with_accent: the arguments are stored as given, beside the
\* fresh flag and identity.
new_with_accent_default(bpm, beats_per_measure, accent_config, next_id, heap) ==
    LET r == NewMetronome(next_id, heap) IN
        [obj  |-> [id |-> r.obj.id, flag |-> r.obj.flag, bpm |-> bpm,
                   beats_per_measure |-> beats_per_measure,
                   accent_config |-> AccentConfig_default],
         heap |-> r.heap]

new_with_accent(bpm, beats_per_measure, accent_config, next_id, heap) ==
    LET r == NewMetronome(next_id, heap) IN
        [obj  |-> [id |-> r.obj.id, flag |-> r.obj.flag, bpm |-> bpm,
                   beats_per_measure |-> beats_per_measure,
                   accent_config |-> accent_config],
         heap |-> r.heap]

\* Metronome::new: accent_config: AccentConfig::default().
new(bpm, beats_per_measure, next_id, heap) ==
    new_with_accent(bpm, beats_per_measure, AccentConfig_default, next_id, heap)

\* The arguments the callers of the model pass.  Tempi are whole numbers of
\* beats per minute; for each of them the f64 expression of run_metronome,
\* (60.0 / bpm * 1000.0) as u64, is the integer quotient 60000 / bpm.
MaxSubdivisions == 3
MaxBeats == 4
MaxTicks == 9

Tempos == {90, 120}

BeatsArgs == {None} \cup {Some(n) : n \in 0..MaxBeats}

\* Configurations: the presets, and the two entry points that take the
\* number of subdivisions as an argument (u32, stored unchecked).
Configs ==
    Presets
    \cup {set_subdivisions(c, n) : c \in {AccentConfig_default, with_triplets,
                                         strong},
                                  n \in 0..MaxSubdivisions}
    \cup {with_custom_subdivisions(n, 33000, 50) : n \in 0..MaxSubdivisions}

\* A caller constructs the metronome of the tick-loop specification.
New(bpm, beats_per_measure, accent_config) ==
    /\ Len(handles) = 0
    /\ LET r == new_with_accent(bpm, beats_per_measure, accent_config,
                                counter, is_playing) IN
        /\ handles' = Append(handles, r.obj)
        /\ is_playing' = r.heap
    /\ counter' = counter + 1
    /\ origin' = Append(origin, 0)
    /\ UNCHANGED <<global, mutex, pc, arg, current, loops, must_exit, cur,
                   last, tk, helper, call, fetched, hist>>

\* The setters take &mut self: no call of start or stop (&self) is in
\* progress on the value.  A call with the value already stored changes
\* nothing and is left out.
Exclusive(h) == \A t \in Threads : arg[t] # h

\* A set_bpm that writes through to every clone of the value, as if bpm were
\* shared like the running flag: the registry's clone and the loop's.
set_bpm_shared(h, bpm) ==
    /\ Exclusive(h)
    /\ handles[h].bpm # bpm
    /\ handles' = [handles EXCEPT ![h].bpm = bpm]
    /\ global' = IF IsCurrent(global, handles[h])
                  THEN Some([Unwrap(global) EXCEPT !.bpm = bpm]) ELSE global
    /\ tk' = IF tk.pc # "none" /\ tk.m.id = handles[h].id
              THEN [tk EXCEPT !.m.bpm = bpm] ELSE tk
    /\ UNCHANGED <<counter, is_playing, origin, mutex, pc, arg,
                   current, loops, must_exit, cur, last, helper, call, fetched, hist>>

\* Metronome::set_bpm on the caller's value.
set_bpm(h, bpm) ==
    /\ Exclusive(h)
    /\ handles[h].bpm # bpm
    /\ handles' = [handles EXCEPT ![h].bpm = bpm]
    /\ UNCHANGED <<counter, is_playing, origin, global, mutex, pc, arg,
                   current, loops, must_exit, cur, last, tk, helper, call, fetched, hist>>

\* Metronome::set_beats_per_measure
set_beats_per_measure(h, beats_per_measure) ==
    /\ Exclusive(h)
    /\ handles[h].beats_per_measure # beats_per_measure
    /\ handles' = [handles EXCEPT ![h].beats_per_measure = beats_per_measure]
    /\ UNCHANGED <<counter, is_playing, origin, global, mutex, pc, arg,
                   current, loops, must_exit, cur, last, tk, helper, call, fetched, hist>>

\* Metronome::set_accent_config
set_accent_config(h, accent_config) ==
    /\ Exclusive(h)
    /\ handles[h].accent_config # accent_config
    /\ handles' = [handles EXCEPT ![h].accent_config = accent_config]
    /\ UNCHANGED <<counter, is_playing, origin, global, mutex, pc, arg,
                   current, loops, must_exit, cur, last, tk, helper, call, fetched, hist>>

\* ------------------------------------- run_metronome, with its locals
\* let beat_duration_ms = (60.0 / self.bpm * 1000.0) as u64, rounded to the
\* nearest millisecond instead of truncated.
BeatDurationRounded(bpm) == (60000 + bpm \div 2) \div bpm

\* let beat_duration_ms = (60.0 / self.bpm * 1000.0) as u64;
BeatDurationMs(bpm) == 60000 \div bpm

\* u64::abs_diff in its place.
AbsDiff(a, b) == IF a > b THEN a - b ELSE b - a

\* u64::saturating_sub
SaturatingSub(a, b) == IF a > b THEN a - b ELSE 0

\* beat_count is a u32.  Its value is beat_top * 2^31 + beat_count in the
\* record of the loop: beat_top is bit 31 and the field beat_count the low
\* 31 bits, whose largest value is Low31Max.
Low31Max == 2147483647

U32(t) == [top |-> t.beat_top, low |-> t.beat_count]

\* v % n for a u32 v and 1 <= n.
Rem32(v, n) == (v.top * (((Low31Max % n) + 1) % n) + (v.low % n)) % n

\* A loop spawned with its beat counter one beat into the measure.
SpawnedMidMeasure(m) ==
    [pc |-> "begin", m |-> m, beat_duration_ms |-> 0,
     subdivision_duration_ms |-> 0, beat_count |-> 1, subdivision_count |-> 0,
     ticks |-> 0, kind |-> "none", tone |-> << >>, sleep_duration |-> 0,
     skipped |-> FALSE, beat_top |-> 0, since |-> 0, gap |-> 0]

\* The loop thread start has just spawned, on its clone m of the metronome.
\* since and gap are history: the main beats played after the last accent,
\* and the distance in beats between the last two accents (0 before the
\* second accent).
Spawned(m) ==
    [pc |-> "begin", m |-> m, beat_duration_ms |-> 0,
     subdivision_duration_ms |-> 0, beat_count |-> 0, subdivision_count |-> 0,
     ticks |-> 0, kind |-> "none", tone |-> << >>, sleep_duration |-> 0,
     skipped |-> FALSE, beat_top |-> 0, since |-> 0, gap |-> 0]

\* start's last step, the loop it spawns being the one followed from now on.
StartSpawnTick(t) ==
    /\ StartSpawn(t)
    /\ tk' = Spawned(handles[arg[t]])
    /\ UNCHANGED <<helper, call, fetched, hist>>

\* The two lets before the loop.  u64 division by zero panics: the thread
\* ends there, no store to the flag is made.
RunBegin ==
    /\ tk.pc = "begin"
    /\ LET b == BeatDurationMs(tk.m.bpm)
           s == tk.m.accent_config.subdivisions
       IN  tk' = IF s = 0
                 THEN [tk EXCEPT !.pc = "panicked", !.beat_duration_ms = b]
                 ELSE [tk EXCEPT !.pc = "check", !.beat_duration_ms = b,
                                 !.subdivision_duration_ms = b \div s]
    /\ UNCHANGED <<counter, is_playing, handles, origin, global, mutex, pc,
                   arg, current, loops, must_exit, cur, last, helper, call, fetched, hist>>

\* while self.is_playing.load(Relaxed)
RunCheck ==
    /\ tk.pc = "check"
    /\ tk' = [tk EXCEPT !.pc = IF IsPlaying(tk.m) THEN "classify" ELSE "exited"]
    /\ UNCHANGED <<counter, is_playing, handles, origin, global, mutex, pc,
                   arg, current, loops, must_exit, cur, last, helper, call, fetched, hist>>

\* is_accent: beats_per_measure.is_some_and(|beats| beat_count % beats == 0
\*                                          && subdivision_count == 0)
\* with every metronome treated as if it had no meter.
IsAccentNever(m, beat_count, subdivision_count) == FALSE

\* The same with a metronome without meter treated as one of one beat per
\* measure.
IsAccentUnmetered(m, beat_count, subdivision_count) ==
    /\ Rem32(beat_count, IF IsSome(m.beats_per_measure)
                         THEN Unwrap(m.beats_per_measure) ELSE 1) = 0
    /\ subdivision_count = 0

IsAccent(m, beat_count, subdivision_count) ==
    /\ IsSome(m.beats_per_measure)
    /\ Rem32(beat_count, Unwrap(m.beats_per_measure)) = 0
    /\ subdivision_count = 0

\* The counters after a tick with the modulo forgotten.
AdvanceUnwrapped(t) ==
    LET c == t.subdivision_count + 1 IN
        [t EXCEPT !.subdivision_count = c,
                  !.beat_count = IF c = 0 THEN @ + 1 ELSE @]

\* beat_count += 1 on a beat_count of u32::MAX.
Overflows(t) ==
    /\ (t.subdivision_count + 1) % t.m.accent_config.subdivisions = 0
    /\ t.beat_top = 1
    /\ t.beat_count = Low31Max

\* The counters after a tick (or after the skipped iteration); the
\* increment of a build without overflow checks, which wraps to 0.
Advance(t) ==
    LET c == (t.subdivision_count + 1) % t.m.accent_config.subdivisions IN
        [t EXCEPT !.subdivision_count = c,
                  !.beat_count = IF c # 0 THEN @
                                 ELSE IF @ = Low31Max THEN 0 ELSE @ + 1,
                  !.beat_top = IF c = 0 /\ t.beat_count = Low31Max
                               THEN 1 - @ ELSE @]

\* The tuple (frequency, duration, wave_type, volume) with every tick at
\* full volume.
ToneOfFullVolume(c, kind) ==
    CASE kind = "Accent"  -> <<c.accent_frequency, c.accent_duration,
                               c.accent_wave_type, 100>>
      [] kind = "Regular" -> <<c.regular_frequency, c.regular_duration,
                               c.regular_wave_type, 100>>
      [] kind = "Subdivision" -> <<c.subdivision_frequency,
                                   c.subdivision_duration,
                                   c.subdivision_wave_type, 100>>

\* The tuple (frequency, duration, wave_type, volume) of the three branches
\* that play a tone; 1.0 is 100.
ToneOf(c, kind) ==
    CASE kind = "Accent"  -> <<c.accent_frequency, c.accent_duration,
                               c.accent_wave_type, 100>>
      [] kind = "Regular" -> <<c.regular_frequency, c.regular_duration,
                               c.regular_wave_type, 100>>
      [] kind = "Subdivision" -> <<c.subdivision_frequency,
                                   c.subdivision_duration,
                                   c.subdivision_wave_type,
                                   c.subdivision_volume>>

\* The body of the loop up to the call of the tone module: the kind of the
\* tick and the tone it takes from the configuration.  beat_count % 0
\* panics.  The last branch skips the iteration (continue).
RunClassify ==
    /\ tk.pc = "classify"
    /\ tk.ticks < MaxTicks
    /\ LET c == tk.m.accent_config IN
       tk' = IF tk.m.beats_per_measure = Some(0)
               THEN [tk EXCEPT !.pc = "panicked"]
             ELSE IF IsAccent(tk.m, U32(tk), tk.subdivision_count)
               THEN [tk EXCEPT !.pc = "tone", !.kind = "Accent",
                               !.ticks = @ + 1,
                               !.tone = ToneOf(c, "Accent"),
                               !.gap = IF tk.kind = "none" THEN @
                                       ELSE tk.since + 1,
                               !.since = 0]
             ELSE IF tk.subdivision_count = 0
               THEN [tk EXCEPT !.pc = "tone", !.kind = "Regular",
                               !.ticks = @ + 1,
                               !.tone = ToneOf(c, "Regular"),
                               !.since = @ + 1]
             ELSE IF c.subdivisions > 1
               THEN [tk EXCEPT !.pc = "tone", !.kind = "Subdivision",
                               !.ticks = @ + 1,
                               !.tone = ToneOf(c, "Subdivision")]
             ELSE [Advance(tk) EXCEPT !.pc = "check", !.skipped = TRUE]
    /\ UNCHANGED <<counter, is_playing, handles, origin, global, mutex, pc,
                   arg, current, loops, must_exit, cur, last, helper, call, fetched, hist>>

\* play_beep_with_wave_type_and_volume returned Ok: the counters advance and
\* the thread sleeps for what is left of the tick period, if anything.
\* beat_count += 1 on u32::MAX panics in a build with overflow checks
\* ("attempt to add with overflow") and wraps to 0 in a build without.
RunToneOk ==
    /\ tk.pc = "tone"
    /\ LET d == SaturatingSub(tk.subdivision_duration_ms, tk.tone[2]) IN
       \/ tk' = [Advance(tk) EXCEPT !.sleep_duration = d,
                                    !.pc = IF d > 0 THEN "sleep" ELSE "check"]
       \/ /\ Overflows(tk)
          /\ tk' = [tk EXCEPT !.pc = "panicked"]
    /\ UNCHANGED <<counter, is_playing, handles, origin, global, mutex, pc,
                   arg, current, loops, must_exit, cur, last, helper, call, fetched, hist>>

\* It returned Err(e): eprintln!, break.
RunToneErr ==
    /\ tk.pc = "tone"
    /\ tk' = [tk EXCEPT !.pc = "failed"]
    /\ UNCHANGED <<counter, is_playing, handles, origin, global, mutex, pc,
                   arg, current, loops, must_exit, cur, last, helper, call, fetched, hist>>

\* thread::sleep(Duration::from_millis(sleep_duration)) is over.
RunSleep ==
    /\ tk.pc = "sleep"
    /\ tk' = [tk EXCEPT !.pc = "check"]
    /\ UNCHANGED <<counter, is_playing, handles, origin, global, mutex, pc,
                   arg, current, loops, must_exit, cur, last, helper, call, fetched, hist>>

\* --------------------------------------- the tick-loop specification
\* One caller, thread 1, constructs one metronome, configures it, and calls
\* start, stop and stop_global_metronome; the loop of the latest start is
\* followed with its locals.  Here the caller sets the meter and the accent
\* configuration before it starts playback (SpecSnap has them set at any
\* time).  The other threads are off: they make no call,
\* and as they are never idle the call histories stay empty.
InitTick ==
    /\ counter = 0
    /\ is_playing = << >>
    /\ handles = << >>
    /\ origin = << >>
    /\ global = None
    /\ mutex = 0
    /\ pc = [t \in Threads |-> IF t = 1 THEN "idle" ELSE "off"]
    /\ arg = [t \in Threads |-> 0]
    /\ current = [t \in Threads |-> None]
    /\ loops = << >>
    /\ must_exit = << >>
    /\ cur = [t \in Threads |-> NoCall]
    /\ last = NoCall
    /\ tk = NoTick
    /\ helper = NoHelper
    /\ call = NoPure
    /\ fetched = [t \in Threads |-> None]
    /\ hist = << >>

NextTick ==
    \/ \E bpm \in Tempos, b \in BeatsArgs, c \in Configs : New(bpm, b, c)
    \/ \E h \in 1..Len(handles), bpm \in Tempos : set_bpm(h, bpm)
    \/ \E h \in 1..Len(handles), b \in BeatsArgs :
          Len(loops) = 0 /\ set_beats_per_measure(h, b)
    \/ \E h \in 1..Len(handles), c \in Configs :
          Len(loops) = 0 /\ set_accent_config(h, c)
    \/ \E h \in 1..Len(handles) : StartLock(1, h) /\ UNCHANGED ext
    \/ StartUnlock(1) /\ UNCHANGED ext
    \/ StartClear(1) /\ UNCHANGED ext
    \/ StartSet(1) /\ UNCHANGED ext
    \/ StartSpawnTick(1)
    \/ \E h \in 1..Len(handles) : StopClear(1, h) /\ UNCHANGED ext
    \/ StopLock(1) /\ UNCHANGED ext
    \/ StopUnlock(1) /\ UNCHANGED ext
    \/ StopAllLock(1) /\ UNCHANGED ext
    \/ StopAllUnlock(1) /\ UNCHANGED ext
    \/ StopAllClear(1) /\ UNCHANGED ext
    \/ RunBegin
    \/ RunCheck
    \/ RunClassify
    \/ RunToneOk
    \/ RunToneErr
    \/ RunSleep

SpecTick == InitTick /\ [][NextTick]_vars

\* ------------- play_metronome_for_duration, play_custom_metronome_for_duration
\* The arguments of the two calls of test_timed_metronome_functions.
PlayArgs ==
    {[ctor |-> "new", bpm |-> 120, beats_per_measure |-> Some(4),
      accent_config |-> AccentConfig_default],
     [ctor |-> "new_with_accent", bpm |-> 100, beats_per_measure |-> Some(3),
      accent_config |-> subtle]}

\* Every (tempo, meter, configuration) of the tick-loop specification, for
\* new_with_accent, and every (tempo, meter) for new.
AllArgs ==
    {[ctor |-> "new_with_accent", bpm |-> bpm, beats_per_measure |-> b,
      accent_config |-> c] : bpm \in Tempos, b \in BeatsArgs, c \in Configs}
    \cup {[ctor |-> "new", bpm |-> bpm, beats_per_measure |-> b,
           accent_config |-> AccentConfig_default] :
              bpm \in Tempos, b \in BeatsArgs}

\* let metronome = Metronome::new(bpm, beats_per_measure)?;  or
\* let metronome = Metronome::new_with_accent(bpm, beats_per_measure,
\*                                            accent_config)?;
\* The helper records the registry and the flags it was called in.  (When
\* the constructor returns Err the helper returns at once, nothing changed.)
PlayNew(t, a) ==
    /\ Idle(t)
    /\ helper.stage = "none"
    /\ LET r == IF a.ctor = "new"
                THEN new(a.bpm, a.beats_per_measure, counter, is_playing)
                ELSE new_with_accent(a.bpm, a.beats_per_measure,
                                     a.accent_config, counter, is_playing) IN
        /\ handles' = Append(handles, r.obj)
        /\ is_playing' = r.heap
    /\ counter' = counter + 1
    /\ origin' = Append(origin, 0)
    /\ helper' = [stage |-> "new", t |-> t, h |-> Len(handles) + 1,
                  ctor |-> a.ctor, bpm |-> a.bpm,
                  beats_per_measure |-> a.beats_per_measure,
                  accent_config |-> a.accent_config,
                  g0 |-> global, f0 |-> is_playing]
    /\ UNCHANGED <<global, mutex, pc, arg, current, loops, must_exit, cur,
                   last, tk, call, fetched, hist>>

\* metronome.start()?;  (start has no Err return)
PlayStart(t) ==
    /\ helper.stage = "new"
    /\ helper.t = t
    /\ StartLock(t, helper.h)
    /\ helper' = [helper EXCEPT !.stage = "started"]
    /\ UNCHANGED <<tk, call, fetched, hist>>

\* start has returned: thread::sleep(Duration::from_millis(duration_ms))
\* begins on the caller's thread.
PlaySleep(t) ==
    /\ helper.stage = "started"
    /\ helper.t = t
    /\ Idle(t)
    /\ helper' = [helper EXCEPT !.stage = "sleeping"]
    /\ UNCHANGED <<counter, is_playing, handles, origin, global, mutex, pc,
                   arg, current, loops, must_exit, cur, last, tk, call, fetched, hist>>

\* A helper that returns after the sleep without stopping its metronome.
PlayStopSkipped(t) ==
    /\ helper.stage = "sleeping"
    /\ helper.t = t
    /\ helper' = [helper EXCEPT !.stage = "stopping"]
    /\ UNCHANGED <<counter, is_playing, handles, origin, global, mutex, pc,
                   arg, current, loops, must_exit, cur, last, tk, call, fetched, hist>>

\* The sleep is over: metronome.stop();
PlayStop(t) ==
    /\ helper.stage = "sleeping"
    /\ helper.t = t
    /\ StopClear(t, helper.h)
    /\ helper' = [helper EXCEPT !.stage = "stopping"]
    /\ UNCHANGED <<tk, call, fetched, hist>>

\* stop has returned: Ok(()).  The metronome is dropped.
PlayReturn(t) ==
    /\ helper.stage = "stopping"
    /\ helper.t = t
    /\ Idle(t)
    /\ helper' = [helper EXCEPT !.stage = "returned"]
    /\ UNCHANGED <<counter, is_playing, handles, origin, global, mutex, pc,
                   arg, current, loops, must_exit, cur, last, tk, call, fetched, hist>>

\* The start_* helpers (start_metronome_with_time_signature,
\* start_custom_metronome, ...) end with metronome.start(): start has
\* returned, the function returns its Ok(()) and the local metronome, the
\* only handle a caller had, is dropped.  Metronome has no Drop of its own.
PlayDrop(t) ==
    /\ helper.stage = "started"
    /\ helper.t = t
    /\ Idle(t)
    /\ helper' = [helper EXCEPT !.stage = "dropped"]
    /\ UNCHANGED <<counter, is_playing, handles, origin, global, mutex, pc,
                   arg, current, loops, must_exit, cur, last, tk, call, fetched, hist>>

\* Thread t is not inside the helper; handle h is not the helper's local
\* metronome, which no other caller holds.
Free(t) == helper.stage \in {"none", "returned", "dropped"} \/ helper.t # t

Shared(h) == helper.h # h

\* The arbiter specification with one call of a helper made by one of the
\* threads, among the calls the threads make on their own metronomes.
NextPlay ==
    \/ \E t \in Threads, a \in PlayArgs : PlayNew(t, a)
    \/ \E t \in Threads : PlayStart(t)
    \/ \E t \in Threads : PlaySleep(t)
    \/ \E t \in Threads : PlayStop(t)
    \/ \E t \in Threads : PlayReturn(t)
    \/ \E t \in Threads : PlayDrop(t)
    \/ \E t \in Threads, h \in 1..Len(handles) :
          Free(t) /\ Shared(h) /\ StartLock(t, h) /\ UNCHANGED ext
    \/ \E t \in Threads : StartUnlock(t) /\ UNCHANGED ext
    \/ \E t \in Threads : StartClear(t) /\ UNCHANGED ext
    \/ \E t \in Threads : StartSet(t) /\ UNCHANGED ext
    \/ \E t \in Threads : StartSpawn(t) /\ UNCHANGED ext
    \/ \E t \in Threads, h \in 1..Len(handles) :
          Free(t) /\ Shared(h) /\ StopClear(t, h) /\ UNCHANGED ext
    \/ \E t \in Threads : StopLock(t) /\ UNCHANGED ext
    \/ \E t \in Threads : StopUnlock(t) /\ UNCHANGED ext
    \/ \E t \in Threads : Free(t) /\ StopAllLock(t) /\ UNCHANGED ext
    \/ \E t \in Threads : StopAllUnlock(t) /\ UNCHANGED ext
    \/ \E t \in Threads : StopAllClear(t) /\ UNCHANGED ext
    \/ \E l \in 1..Len(loops) : LoopCheck(l) /\ UNCHANGED ext
    \/ \E l \in 1..Len(loops) : LoopToneOk(l) /\ UNCHANGED ext
    \/ \E l \in 1..Len(loops) : LoopToneErr(l) /\ UNCHANGED ext
    \/ \E l \in 1..Len(loops) : LoopSleep(l) /\ UNCHANGED ext

\* The callers have constructed NumOthers metronomes of their own.
InitPlay ==
    /\ LET s == Construct(NumOthers) IN
        /\ counter = s.counter
        /\ is_playing = s.heap
        /\ handles = s.handles
        /\ origin = [h \in 1..NumOthers |-> 0]
    /\ global = None
    /\ mutex = 0
    /\ pc = [t \in Threads |-> "idle"]
    /\ arg = [t \in Threads |-> 0]
    /\ current = [t \in Threads |-> None]
    /\ loops = << >>
    /\ must_exit = << >>
    /\ cur = [t \in Threads |-> NoCall]
    /\ last = NoCall
    /\ tk = NoTick
    /\ helper = NoHelper
    /\ call = NoPure
    /\ fetched = [t \in Threads |-> None]
    /\ hist = << >>

SpecPlay == InitPlay /\ [][NextPlay]_vars

\* ------------------------------------- the long-run specification
\* A loop that has been playing for so long that beat_count is within
\* WrapLead beats of u32::MAX: the metronome was constructed with a meter,
\* started, and neither stopped nor preempted; the loop is at its condition.
\* ticks counts the ticks from here on.
WrapLead == 4

Playing(m, k) ==
    LET n == Unwrap(m.beats_per_measure)
        c == m.accent_config
        b == BeatDurationMs(m.bpm)
        since == Rem32([top |-> 1, low |-> Low31Max - k - 1], n)
        kind == IF c.subdivisions > 1 THEN "Subdivision"
                ELSE IF since = 0 THEN "Accent" ELSE "Regular"
    IN  [Spawned(m) EXCEPT !.pc = "check",
                           !.beat_duration_ms = b,
                           !.subdivision_duration_ms = b \div c.subdivisions,
                           !.beat_top = 1,
                           !.beat_count = Low31Max - k,
                           !.kind = kind,
                           !.tone = ToneOf(c, kind),
                           !.sleep_duration =
                               SaturatingSub(b \div c.subdivisions,
                                             ToneOf(c, kind)[2]),
                           !.since = since,
                           !.gap = n]

InitWrap ==
    /\ \E bpm \in Tempos, n \in 1..MaxBeats, k \in 0..WrapLead,
          c \in {AccentConfig_default, with_eighth_notes} :
         LET r == new_with_accent(bpm, Some(n), c, 0, << >>) IN
            /\ handles = <<r.obj>>
            /\ is_playing = [r.heap EXCEPT ![r.obj.flag] = TRUE]
            /\ global = Some(r.obj)
            /\ loops = <<[m |-> r.obj, pc |-> "check"]>>
            /\ tk = Playing(r.obj, k)
    /\ counter = 1
    /\ origin = <<0>>
    /\ mutex = 0
    /\ pc = [t \in Threads |-> IF t = 1 THEN "idle" ELSE "off"]
    /\ arg = [t \in Threads |-> 0]
    /\ current = [t \in Threads |-> None]
    /\ must_exit = <<{}>>
    /\ cur = [t \in Threads |-> NoCall]
    /\ last = NoCall
    /\ helper = NoHelper
    /\ call = NoPure
    /\ fetched = [t \in Threads |-> None]
    /\ hist = << >>

NextWrap ==
    \/ RunCheck
    \/ RunClassify
    \/ RunToneOk
    \/ RunToneErr
    \/ RunSleep

SpecWrap == InitWrap /\ [][NextWrap]_vars

\* ------------------------------------------ the snapshot specification
\* The caller of the tick-loop specification, with the three setters called
\* at any time, before and after start, on a smaller set of arguments.
SnapBeats == {None, Some(2)}

SnapConfigs == {AccentConfig_default, with_triplets}

NextSnap ==
    \/ \E bpm \in Tempos, b \in SnapBeats, c \in SnapConfigs : New(bpm, b, c)
    \/ \E h \in 1..Len(handles), bpm \in Tempos : set_bpm(h, bpm)
    \/ \E h \in 1..Len(handles), b \in SnapBeats : set_beats_per_measure(h, b)
    \/ \E h \in 1..Len(handles), c \in SnapConfigs : set_accent_config(h, c)
    \/ \E h \in 1..Len(handles) : StartLock(1, h) /\ UNCHANGED ext
    \/ StartUnlock(1) /\ UNCHANGED ext
    \/ StartClear(1) /\ UNCHANGED ext
    \/ StartSet(1) /\ UNCHANGED ext
    \/ StartSpawnTick(1)
    \/ \E h \in 1..Len(handles) : StopClear(1, h) /\ UNCHANGED ext
    \/ StopLock(1) /\ UNCHANGED ext
    \/ StopUnlock(1) /\ UNCHANGED ext
    \/ RunBegin
    \/ RunCheck
    \/ RunClassify
    \/ RunToneOk
    \/ RunToneErr
    \/ RunSleep

SpecSnap == InitTick /\ [][NextSnap]_vars

\* The constructors alone, applied to every argument.
NextConfig == \E a \in AllArgs : PlayNew(1, a)

SpecConfig == InitTick /\ [][NextConfig]_vars

\* ------------------------------------ the builder methods, applied once
\* The arguments passed: frequencies and volumes in hundredths.
FrequencyArgs == {33000, 52325}

VolumeArgs == {0, 50, 100}

\* A caller applies one builder method to a configuration.
BuildSubdivisions(c, n) ==
    /\ call' = [fn |-> "set_subdivisions", self |-> c, arg |-> n,
                out |-> set_subdivisions(c, n)]
    /\ UNCHANGED <<counter, is_playing, handles, origin, global, mutex, pc,
                   arg, current, loops, must_exit, cur, last, tk, helper,
                   fetched, hist>>

BuildFrequency(c, f) ==
    /\ call' = [fn |-> "set_subdivision_frequency", self |-> c, arg |-> f,
                out |-> set_subdivision_frequency(c, f)]
    /\ UNCHANGED <<counter, is_playing, handles, origin, global, mutex, pc,
                   arg, current, loops, must_exit, cur, last, tk, helper,
                   fetched, hist>>

BuildVolume(c, v) ==
    /\ call' = [fn |-> "set_subdivision_volume", self |-> c, arg |-> v,
                out |-> set_subdivision_volume(c, v)]
    /\ UNCHANGED <<counter, is_playing, handles, origin, global, mutex, pc,
                   arg, current, loops, must_exit, cur, last, tk, helper,
                   fetched, hist>>

BuildWaveType(c, w) ==
    /\ call' = [fn |-> "set_subdivision_wave_type", self |-> c, arg |-> w,
                out |-> set_subdivision_wave_type(c, w)]
    /\ UNCHANGED <<counter, is_playing, handles, origin, global, mutex, pc,
                   arg, current, loops, must_exit, cur, last, tk, helper,
                   fetched, hist>>

NextBuilder ==
    \/ \E c \in Configs, n \in 0..MaxSubdivisions : BuildSubdivisions(c, n)
    \/ \E c \in Configs, f \in FrequencyArgs : BuildFrequency(c, f)
    \/ \E c \in Configs, v \in VolumeArgs : BuildVolume(c, v)
    \/ \E c \in Configs, w \in WaveType : BuildWaveType(c, w)

SpecBuilder == InitTick /\ [][NextBuilder]_vars

\* ------------------------------------------------ the waveform sampler
\* The tone module (src/src/tone.rs) after its contract: sample(wave, phase)
\* is sin(phase) for Sine, +1 on [0, pi) and -1 on [pi, 2 pi) for Square, the
\* ramp from -1 to +1 across the cycle for Sawtooth, the rise from -1 to +1
\* over the first half cycle and the fall back over the second for
\* Triangle; a phase outside the cycle is reduced modulo 2 pi.
\* The phase p stands for 2 pi p / Cycle.  An amplitude is kept exactly, as
\* its sign and its square in units of 1 / Cycle^2: the three piecewise
\* linear shapes are multiples of 1 / Cycle on this grid, and the squares of
\* the sines of the multiples of 30 degrees are 0, 1/4, 3/4 and 1.
Cycle == 12

Amp(v) == [neg |-> v < 0, sq |-> v * v]

SineSq == <<0, 36, 108, 144, 108, 36>>

\* A sawtooth that ramps from 0 to 2, the offset forgotten.
sample_unshifted(wave, phase) ==
    LET p == phase % Cycle IN
        CASE wave = "Sine"     -> [neg |-> 2 * p > Cycle,
                                   sq  |-> SineSq[(p % 6) + 1]]
          [] wave = "Square"   -> Amp(IF 2 * p < Cycle THEN Cycle ELSE -Cycle)
          [] wave = "Sawtooth" -> Amp(2 * p)
          [] wave = "Triangle" -> Amp(IF 2 * p < Cycle THEN 4 * p - Cycle
                                      ELSE 3 * Cycle - 4 * p)

sample(wave, phase) ==
    LET p == phase % Cycle IN
        CASE wave = "Sine"     -> [neg |-> 2 * p > Cycle,
                                   sq  |-> SineSq[(p % 6) + 1]]
          [] wave = "Square"   -> Amp(IF 2 * p < Cycle THEN Cycle ELSE -Cycle)
          [] wave = "Sawtooth" -> Amp(2 * p - Cycle)
          [] wave = "Triangle" -> Amp(IF 2 * p < Cycle THEN 4 * p - Cycle
                                      ELSE 3 * Cycle - 4 * p)

\* The phases sampled: three cycles.
PhaseArgs == 0..(3 * Cycle - 1)

Sample(wave, phase) ==
    /\ call' = [fn |-> "sample", wave |-> wave, phase |-> phase,
                out |-> sample(wave, phase)]
    /\ UNCHANGED <<counter, is_playing, handles, origin, global, mutex, pc,
                   arg, current, loops, must_exit, cur, last, tk, helper,
                   fetched, hist>>

NextWave == \E wave \in WaveType, phase \in PhaseArgs : Sample(wave, phase)

SpecWave == InitTick /\ [][NextWave]_vars

\* -------------------------------------- constructors on racing threads
\* Metronome::new in two steps: the fetch_add on METRONOME_ID_COUNTER, one
\* atomic read-modify-write, and the rest of the constructor, which works
\* on the thread's own values.  (The counter is a u64 and would wrap after
\* 2^64 constructions.)
Pending == {t \in Threads : IsSome(fetched[t])}

\* A constructor that only loads the counter.
FetchLoad(t) ==
    /\ Idle(t)
    /\ Len(handles) + Cardinality(Pending) < NumMetronomes
    /\ fetched' = [fetched EXCEPT ![t] = Some(counter)]
    /\ pc' = [pc EXCEPT ![t] = "new_build"]
    /\ UNCHANGED <<counter, is_playing, handles, origin, global, mutex, arg,
                   current, loops, must_exit, cur, last, tk, helper, call, hist>>

\* METRONOME_ID_COUNTER.fetch_add(1, Relaxed)
FetchAdd(t) ==
    /\ Idle(t)
    /\ Len(handles) + Cardinality(Pending) < NumMetronomes
    /\ fetched' = [fetched EXCEPT ![t] = Some(counter)]
    /\ counter' = counter + 1
    /\ pc' = [pc EXCEPT ![t] = "new_build"]
    /\ UNCHANGED <<is_playing, handles, origin, global, mutex, arg, current,
                   loops, must_exit, cur, last, tk, helper, call, hist>>

\* Ok(Self { .., is_playing: Arc::new(AtomicBool::new(false)), id: .. })
NewBuild(t) ==
    /\ pc[t] = "new_build"
    /\ LET r == NewMetronome(Unwrap(fetched[t]), is_playing) IN
        /\ handles' = Append(handles, r.obj)
        /\ is_playing' = r.heap
    /\ origin' = Append(origin, 0)
    /\ fetched' = [fetched EXCEPT ![t] = None]
    /\ pc' = [pc EXCEPT ![t] = "idle"]
    /\ UNCHANGED <<counter, global, mutex, arg, current, loops, must_exit,
                   cur, last, tk, helper, call, hist>>

\* No metronome exists yet; every thread may construct, start and stop.
InitNew ==
    /\ counter = 0
    /\ is_playing = << >>
    /\ handles = << >>
    /\ origin = << >>
    /\ global = None
    /\ mutex = 0
    /\ pc = [t \in Threads |-> "idle"]
    /\ arg = [t \in Threads |-> 0]
    /\ current = [t \in Threads |-> None]
    /\ loops = << >>
    /\ must_exit = << >>
    /\ cur = [t \in Threads |-> NoCall]
    /\ last = NoCall
    /\ tk = NoTick
    /\ helper = NoHelper
    /\ call = NoPure
    /\ fetched = [t \in Threads |-> None]
    /\ hist = << >>

NextNew ==
    \/ \E t \in Threads : FetchAdd(t)
    \/ \E t \in Threads : NewBuild(t)
    \/ \E t \in Threads, h \in 1..Len(handles) :
          StartLock(t, h) /\ UNCHANGED ext
    \/ \E t \in Threads : StartUnlock(t) /\ UNCHANGED ext
    \/ \E t \in Threads : StartClear(t) /\ UNCHANGED ext
    \/ \E t \in Threads : StartSet(t) /\ UNCHANGED ext
    \/ \E t \in Threads : StartSpawn(t) /\ UNCHANGED ext
    \/ \E t \in Threads, h \in 1..Len(handles) :
          StopClear(t, h) /\ UNCHANGED ext
    \/ \E t \in Threads : StopLock(t) /\ UNCHANGED ext
    \/ \E t \in Threads : StopUnlock(t) /\ UNCHANGED ext
    \/ \E t \in Threads : StopAllLock(t) /\ UNCHANGED ext
    \/ \E t \in Threads : StopAllUnlock(t) /\ UNCHANGED ext
    \/ \E t \in Threads : StopAllClear(t) /\ UNCHANGED ext
    \/ \E l \in 1..Len(loops) : LoopCheck(l) /\ UNCHANGED ext
    \/ \E l \in 1..Len(loops) : LoopToneOk(l) /\ UNCHANGED ext
    \/ \E l \in 1..Len(loops) : LoopToneErr(l) /\ UNCHANGED ext
    \/ \E l \in 1..Len(loops) : LoopSleep(l) /\ UNCHANGED ext

SpecNew == InitNew /\ [][NextNew]_vars

\* ------------------------------------- the sequential specification
\* The calls of the arbiter made one at a time, by any thread: a call
\* begins only when no other call is in progress.  The tick loops run as
\* they please.
Alone(t) == \A u \in Threads \ {t} : Idle(u)

NextSeq ==
    \/ \E t \in Threads, h \in 1..Len(handles) :
          Alone(t) /\ StartLock(t, h) /\ UNCHANGED ext
    \/ \E t \in Threads : StartUnlock(t) /\ UNCHANGED ext
    \/ \E t \in Threads : StartClear(t) /\ UNCHANGED ext
    \/ \E t \in Threads : StartSet(t) /\ UNCHANGED ext
    \/ \E t \in Threads : StartSpawn(t) /\ UNCHANGED ext
    \/ \E t \in Threads, h \in 1..Len(handles) :
          Alone(t) /\ StopClear(t, h) /\ UNCHANGED ext
    \/ \E t \in Threads : StopLock(t) /\ UNCHANGED ext
    \/ \E t \in Threads : StopUnlock(t) /\ UNCHANGED ext
    \/ \E t \in Threads : Alone(t) /\ StopAllLock(t) /\ UNCHANGED ext
    \/ \E t \in Threads : StopAllUnlock(t) /\ UNCHANGED ext
    \/ \E t \in Threads : StopAllClear(t) /\ UNCHANGED ext
    \/ \E l \in 1..Len(loops) : LoopCheck(l) /\ UNCHANGED ext
    \/ \E l \in 1..Len(loops) : LoopToneOk(l) /\ UNCHANGED ext
    \/ \E l \in 1..Len(loops) : LoopToneErr(l) /\ UNCHANGED ext
    \/ \E l \in 1..Len(loops) : LoopSleep(l) /\ UNCHANGED ext

SpecSeq == Init /\ [][NextSeq]_vars

\* --------------------------------- the specification with call histories
\* The arbiter with the history of its calls: each call is entered in hist
\* when it begins, with the calls that had returned by then, and marked
\* when it returns.  At most MaxCalls calls are made.
MaxCalls == 3

rest == <<tk, helper, call, fetched>>

Enter(t, op, h) ==
    /\ Len(hist) < MaxCalls
    /\ hist' = Append(hist, [t |-> t, op |-> op, h |-> h, ret |-> FALSE,
                             before |-> {i \in 1..Len(hist) : hist[i].ret}])

Leave(t) ==
    hist' = [i \in 1..Len(hist) |->
                IF hist[i].t = t THEN [hist[i] EXCEPT !.ret = TRUE]
                ELSE hist[i]]

NextLin ==
    \/ \E t \in Threads, h \in 1..Len(handles) :
          StartLock(t, h) /\ Enter(t, "start", h) /\ UNCHANGED rest
    \/ \E t \in Threads : StartUnlock(t) /\ UNCHANGED ext
    \/ \E t \in Threads : StartClear(t) /\ UNCHANGED ext
    \/ \E t \in Threads : StartSet(t) /\ UNCHANGED ext
    \/ \E t \in Threads : StartSpawn(t) /\ Leave(t) /\ UNCHANGED rest
    \/ \E t \in Threads, h \in 1..Len(handles) :
          StopClear(t, h) /\ Enter(t, "stop", h) /\ UNCHANGED rest
    \/ \E t \in Threads : StopLock(t) /\ UNCHANGED ext
    \/ \E t \in Threads : StopUnlock(t) /\ Leave(t) /\ UNCHANGED rest
    \/ \E t \in Threads :
          StopAllLock(t) /\ Enter(t, "stop_all", 0) /\ UNCHANGED rest
    \/ \E t \in Threads : StopAllUnlock(t) /\ UNCHANGED ext
    \/ \E t \in Threads : StopAllClear(t) /\ Leave(t) /\ UNCHANGED rest
    \/ \E l \in 1..Len(loops) : LoopCheck(l) /\ UNCHANGED ext
    \/ \E l \in 1..Len(loops) : LoopToneOk(l) /\ UNCHANGED ext
    \/ \E l \in 1..Len(loops) : LoopToneErr(l) /\ UNCHANGED ext
    \/ \E l \in 1..Len(loops) : LoopSleep(l) /\ UNCHANGED ext

SpecLin == Init /\ [][NextLin]_vars

\* What each call does to the pair (registry, flags) when it runs from its
\* first step to its last with no other call in between.
SeqStart(st, h) ==
    LET f == IF IsSome(st.g) THEN [st.f EXCEPT ![Unwrap(st.g).flag] = FALSE]
             ELSE st.f
    IN  [g |-> Some(handles[h]), f |-> [f EXCEPT ![handles[h].flag] = TRUE]]

SeqStop(st, h) ==
    [g |-> IF IsCurrent(st.g, handles[h]) THEN None ELSE st.g,
     f |-> [st.f EXCEPT ![handles[h].flag] = FALSE]]

SeqStopAll(st) ==
    [g |-> None,
     f |-> IF IsSome(st.g) THEN [st.f EXCEPT ![Unwrap(st.g).flag] = FALSE]
           ELSE st.f]

\* The pair after the calls of hist made one at a time in the given order,
\* from the initial pair: registry empty, no flag set.
RECURSIVE SeqRun(_, _)
SeqRun(st, order) ==
    IF order = << >> THEN st
    ELSE LET c == hist[Head(order)] IN
         SeqRun(CASE c.op = "start" -> SeqStart(st, c.h)
                  [] c.op = "stop" -> SeqStop(st, c.h)
                  [] c.op = "stop_all" -> SeqStopAll(st),
                Tail(order))

\* The orders of the calls of hist that respect real time: a call that had
\* returned before another began comes before it.
Orders ==
    LET n == Len(hist) IN
    {p \in [1..n -> 1..n] :
        /\ \A i, j \in 1..n : p[i] = p[j] => i = j
        /\ \A i, j \in 1..n : i < j => p[j] \notin hist[p[i]].before}

\* ------------------------------------------------------------------ Next
Next ==
    \/ \E t \in Threads, h \in 1..Len(handles) : StartLock(t, h) /\ UNCHANGED ext
    \/ \E t \in Threads : StartUnlock(t) /\ UNCHANGED ext
    \/ \E t \in Threads : StartClear(t) /\ UNCHANGED ext
    \/ \E t \in Threads : StartSet(t) /\ UNCHANGED ext
    \/ \E t \in Threads : StartSpawn(t) /\ UNCHANGED ext
    \/ \E t \in Threads, h \in 1..Len(handles) : StopClear(t, h) /\ UNCHANGED ext
    \/ \E t \in Threads : StopLock(t) /\ UNCHANGED ext
    \/ \E t \in Threads : StopUnlock(t) /\ UNCHANGED ext
    \/ \E t \in Threads : StopAllLock(t) /\ UNCHANGED ext
    \/ \E t \in Threads : StopAllUnlock(t) /\ UNCHANGED ext
    \/ \E t \in Threads : StopAllClear(t) /\ UNCHANGED ext
    \/ \E l \in 1..Len(loops) : LoopCheck(l) /\ UNCHANGED ext
    \/ \E l \in 1..Len(loops) : LoopToneOk(l) /\ UNCHANGED ext
    \/ \E l \in 1..Len(loops) : LoopToneErr(l) /\ UNCHANGED ext
    \/ \E l \in 1..Len(loops) : LoopSleep(l) /\ UNCHANGED ext

Spec == Init /\ [][Next]_vars

\* ================================================================ claims
Handles == 1..Len(handles)

\* The identities whose running flag is true.
Running == {handles[h].id : h \in {k \in Handles : IsPlaying(handles[k])}}

\* The thread, if any, that executes a start alone and is past the step
\* that clears the previous holder's flag.
PastClear(t) == cur[t].op = "start" /\ pc[t] \in {"start_set", "start_spawn"}

\* C1: for distinct metronomes A and B, if A is running when B.start() is
\* called with no other call in progress, then once B.start() has returned
\* A.is_playing() is false and B.is_playing() is true.
C1_PreemptedAfterStart ==
    last.op = "start" =>
        \A a \in Handles :
            (handles[a].id # handles[last.h].id /\ last.f0[handles[a].flag])
            => (~IsPlaying(handles[a]) /\ IsPlaying(handles[last.h]))

\* C2: in every reachable state, under any interleaving of start, stop and
\* stop_all from any number of threads, at most one metronome identity has
\* its running flag true.
C2_AtMostOneRunning == Cardinality(Running) <= 1

\* C3 (as claimed): there is no reachable state in which the registry holds
\* the metronome m of a start while a different metronome, which that start
\* took from the registry, still has running == true.
C3_ClearedBeforeRegistered ==
    \A t \in Threads :
        (/\ pc[t] \in {"start_unlock", "start_clear", "start_set", "start_spawn"}
         /\ IsSome(global) /\ Unwrap(global).id = handles[arg[t]].id
         /\ IsSome(current[t]) /\ Unwrap(current[t]).id # handles[arg[t]].id)
        => ~IsPlaying(Unwrap(current[t]))

\* With no other call in progress: once start(m) is past its clearing step,
\* and after it has returned, a different metronome it took from the registry
\* has running == false.
C3_ClearedWhenAlone ==
    /\ \A t \in Threads :
        (PastClear(t) /\ IsSome(cur[t].g0)
            /\ Unwrap(cur[t].g0).id # handles[cur[t].h].id)
        => ~IsPlaying(Unwrap(cur[t].g0))
    /\ (last.op = "start" /\ IsSome(last.g0)
            /\ Unwrap(last.g0).id # handles[last.h].id)
        => ~IsPlaying(Unwrap(last.g0))

\* Under every interleaving: the step of start(m) that registers m changes
\* no running flag, and the later step that clears the flag of the metronome
\* taken from the registry leaves that flag false.
C3_RegisterThenClear ==
    \A t \in Threads :
        /\ (Idle(t) /\ pc'[t] = "start_unlock")
            => /\ IsSome(global')
               /\ Unwrap(global').id = handles[arg'[t]].id
               /\ is_playing' = is_playing
        /\ (pc[t] = "start_clear" /\ pc'[t] = "start_set" /\ IsSome(current[t]))
            => ~is_playing'[Unwrap(current[t]).flag]

\* C3 (amended): start(m) registers m first and clears the previous holder's
\* running flag afterwards, before it sets m's own flag. The registering
\* step changes no flag and the clearing step leaves the previous holder's
\* flag false; with no other call in progress no state past the clearing
\* step has a different, previously registered metronome still running.
C3_ClearedAfterRegistered ==
    /\ []C3_ClearedWhenAlone
    /\ [][C3_RegisterThenClear]_vars

\* C3 witness: a start running alone has cleared the flag of a running
\* holder of another identity and has not yet set its own.
C3_Witness ==
    \E t \in Threads :
        /\ cur[t].op = "start" /\ pc[t] = "start_set"
        /\ IsSome(cur[t].g0)
        /\ Unwrap(cur[t].g0).id # handles[cur[t].h].id
        /\ cur[t].f0[Unwrap(cur[t].g0).flag]
        /\ IsSome(global) /\ Unwrap(global).id = handles[cur[t].h].id

\* C4: after start(B) has returned, the tick loop of the metronome that was
\* registered before the call reads running == false at its next loop check
\* and ends there.
C4_PreemptedLoopExits ==
    [][\A l \in 1..Len(loops) :
        ("start" \in must_exit[l] /\ loops[l].pc = "check"
            /\ loops'[l].pc # "check")
        => loops'[l].pc = "exited"]_vars

\* C5: after stop_all() has returned, no start having been called since, no
\* metronome has running == true.
C5_NoneRunningAfterStopAll ==
    last.op = "stop_all" => \A h \in Handles : ~IsPlaying(handles[h])

\* C6: after stop(m) has returned, the tick loop that was running for m ends
\* at its next loop check, whatever is called on m afterwards.
C6_StoppedLoopExits ==
    [][\A l \in 1..Len(loops) :
        ("stop" \in must_exit[l] /\ loops[l].pc = "check"
            /\ loops'[l].pc # "check")
        => loops'[l].pc = "exited"]_vars

\* C7: after m.start() has returned Ok with no other call in progress,
\* m.is_playing() is true and current() returns a handle with m's identity
\* that shares m's running flag.
C7_StartRegistersSelf ==
    last.op = "start" =>
        /\ IsPlaying(handles[last.h])
        /\ IsSome(get_global_metronome)
        /\ Unwrap(get_global_metronome).id = handles[last.h].id
        /\ Unwrap(get_global_metronome).flag = handles[last.h].flag

\* C7 witness: a start has returned that replaced a running holder.
C7_Witness ==
    /\ last.op = "start"
    /\ IsSome(last.g0)
    /\ last.f0[Unwrap(last.g0).flag]

\* C8: after stop(m) has returned, m.is_playing() is false, and if the
\* registry holder had m's identity when stop was called, current() is none.
C8_StopClearsHolder ==
    last.op = "stop" =>
        /\ ~IsPlaying(handles[last.h])
        /\ (IsSome(last.g0) /\ Unwrap(last.g0).id = handles[last.h].id)
            => get_global_metronome = None

\* C8 witness: stop has returned on the registry holder, which was running.
C8_Witness ==
    /\ last.op = "stop"
    /\ IsSome(last.g0)
    /\ Unwrap(last.g0).id = handles[last.h].id
    /\ last.f0[handles[last.h].flag]

\* C9: if the registry holds a metronome B whose identity differs from m's,
\* stop(m) leaves the registry holding B and B's running flag as it was.
C9_StopLeavesOtherHolder ==
    (last.op = "stop" /\ IsSome(last.g0)
        /\ Unwrap(last.g0).id # handles[last.h].id)
    => /\ global = last.g0
       /\ IsPlaying(Unwrap(last.g0)) = last.f0[Unwrap(last.g0).flag]

\* C9 witness: stop(m) has returned while a running metronome of another
\* identity held the registry.
C9_Witness ==
    /\ last.op = "stop"
    /\ IsSome(last.g0)
    /\ Unwrap(last.g0).id # handles[last.h].id
    /\ last.f0[Unwrap(last.g0).flag]

\* C10: a clone of m has m's identity and m's running flag; stop() on a
\* clone of m clears m's running flag and, when m is the registry holder,
\* clears the registry.
C10_CloneSharesIdentityAndFlag ==
    /\ \A h \in Handles :
        origin[h] # 0 =>
            /\ handles[h].id = handles[origin[h]].id
            /\ handles[h].flag = handles[origin[h]].flag
    /\ (last.op = "stop" /\ origin[last.h] # 0) =>
        /\ ~IsPlaying(handles[origin[last.h]])
        /\ (IsSome(last.g0)
                /\ Unwrap(last.g0).id = handles[origin[last.h]].id)
            => global = None

\* C10 witness: m has a tick loop and was the running registry holder when
\* stop() was called on a clone of m, and that stop has returned.
C10_Witness ==
    /\ last.op = "stop"
    /\ origin[last.h] # 0
    /\ IsSome(last.g0)
    /\ Unwrap(last.g0).id = handles[origin[last.h]].id
    /\ last.f0[handles[origin[last.h]].flag]
    /\ \E l \in 1..Len(loops) : loops[l].m.flag = handles[origin[last.h]].flag

\* C11: a stop_all() called with no other call in progress leaves the
\* registry empty; the holder it found, if any, has its running flag
\* cleared; if it found the registry empty, neither the registry nor any
\* running flag has changed; and a stop_all() that follows a stop_all()
\* directly leaves the registry and every flag as the first one left them.
C11_StopAllClearsHolder ==
    last.op = "stop_all" =>
        /\ global = None
        /\ IsSome(last.g0) => ~is_playing[Unwrap(last.g0).flag]
        /\ last.g0 = None => is_playing = last.f0
        /\ last.after.op = "stop_all" =>
              (global = last.g0 /\ is_playing = last.f0)

\* A stop_all() found a running holder and stopped it, and the stop_all()
\* called next has returned.
C11_Witness ==
    /\ last.op = "stop_all"
    /\ last.after.op = "stop_all"
    /\ IsSome(last.after.g0)
    /\ last.after.f0[Unwrap(last.after.g0).flag]
    /\ ~is_playing[Unwrap(last.after.g0).flag]

\* C15 (as claimed): when a tone fails to render, the tick loop ends and the
\* running flag is cleared: once the loop has left on the render error,
\* is_playing() is false.
C15_FlagClearedOnRenderError ==
    [][\A l \in 1..Len(loops) :
          (loops[l].pc = "tone" /\ loops'[l].pc = "failed")
          => ~is_playing'[loops[l].m.flag]]_vars

\* ------------------------------------------------ claims on the tick loop
\* The loop followed has classified at least one tick.
Ticked == tk.pc # "none" /\ tk.ticks > 0

\* C12: in a loop with beats_per_measure = Some(n), n >= 1, and s >= 1
\* subdivisions, the k-th tick (k = 0, 1, ...) is an Accent iff k mod (n*s)
\* is 0, a Regular beat iff k mod s is 0 and k mod (n*s) is not, and a
\* Subdivision click otherwise.
C12_TickKinds ==
    (/\ Ticked
     /\ IsSome(tk.m.beats_per_measure)
     /\ Unwrap(tk.m.beats_per_measure) >= 1
     /\ tk.m.accent_config.subdivisions >= 1)
    => LET k == tk.ticks - 1
           n == Unwrap(tk.m.beats_per_measure)
           s == tk.m.accent_config.subdivisions
       IN  tk.kind = IF k % (n * s) = 0 THEN "Accent"
                     ELSE IF k % s = 0 THEN "Regular"
                     ELSE "Subdivision"

\* Three beats of two subdivisions: tick 6 is the accent of the second
\* measure, and it has sounded.
C12_Witness ==
    /\ Ticked
    /\ tk.m.beats_per_measure = Some(3)
    /\ tk.m.accent_config.subdivisions = 2
    /\ tk.ticks = 7
    /\ tk.kind = "Accent"
    /\ tk.pc = "sleep"

\* C13: when beats_per_measure is None no tick of the loop is an Accent,
\* whatever the number of subdivisions and of ticks.
C13_NoAccentWithoutMeter ==
    (Ticked /\ tk.m.beats_per_measure = None) => tk.kind # "Accent"

\* A loop without meter and with subdivisions has sounded several ticks,
\* main beats among them.
C13_Witness ==
    /\ Ticked
    /\ tk.m.beats_per_measure = None
    /\ tk.m.accent_config.subdivisions = 2
    /\ tk.ticks = 5
    /\ tk.kind = "Regular"
    /\ tk.pc = "sleep"

\* C14: the tick period of a loop, in milliseconds, is
\* floor(floor(60000 / bpm) / subdivisions) for the tempo the loop was
\* spawned with, at every point of the loop: 500 for 120 BPM and one
\* subdivision, 222 for 90 BPM and three.
C14_TickPeriod ==
    (/\ tk.pc \notin {"none", "begin"}
     /\ tk.m.accent_config.subdivisions >= 1)
    => /\ tk.subdivision_duration_ms =
            (60000 \div tk.m.bpm) \div tk.m.accent_config.subdivisions
       /\ (tk.m.bpm = 120 /\ tk.m.accent_config.subdivisions = 1)
            => tk.subdivision_duration_ms = 500
       /\ (tk.m.bpm = 90 /\ tk.m.accent_config.subdivisions = 3)
            => tk.subdivision_duration_ms = 222

\* A loop at 90 BPM with triplets sleeps after its third tick, with a period
\* of 222 ms, after the caller has set another tempo on its value.
C14_Witness ==
    /\ tk.pc = "sleep"
    /\ tk.m.bpm = 90
    /\ tk.m.accent_config.subdivisions = 3
    /\ tk.ticks = 3
    /\ tk.subdivision_duration_ms = 222
    /\ handles[1].bpm = 120

\* C16 (as claimed): for every configuration the constructors and setters
\* accept, a loop that has ended has read running == false or has received
\* a render error.
C16_LoopEndsOnFlagOrError ==
    (tk.pc \in {"exited", "failed", "panicked"})
    => tk.pc \in {"exited", "failed"}

\* C17 (as claimed): every metronome (and the accent configuration in it)
\* obtained through the constructors, presets, builder methods and setters
\* has subdivisions >= 1 and beats_per_measure None or >= 1.
C17_ConfigWithinBounds ==
    \A h \in 1..Len(handles) :
        /\ handles[h].accent_config.subdivisions >= 1
        /\ \/ handles[h].beats_per_measure = None
           \/ Unwrap(handles[h].beats_per_measure) >= 1

\* ------------------------------- claims on the helpers and constructors
\* The metronome a helper created is the registry holder.
HelperHolds ==
    IsSome(global) /\ Unwrap(global).id = handles[helper.h].id

\* C18: play_metronome_for_duration and play_custom_metronome_for_duration
\* start their metronome, then sleep on the caller's thread, then stop it:
\* the loop of the metronome has been spawned when the sleep begins, and
\* when the helper has returned Ok its metronome is not running and is not
\* the registry holder, whatever the other callers did to their own
\* metronomes in the meantime.
C18_HelperStopsItsMetronome ==
    /\ helper.stage \in {"sleeping", "stopping", "returned"}
          => \E l \in 1..Len(loops) : loops[l].m.id = handles[helper.h].id
    /\ helper.stage = "returned"
          => (~IsPlaying(handles[helper.h]) /\ ~HelperHolds)

\* A helper has returned; the loop it had started has seen the flag cleared
\* and has left.
C18_Witness ==
    /\ helper.stage = "returned"
    /\ \E l \in 1..Len(loops) :
          /\ loops[l].m.id = handles[helper.h].id
          /\ loops[l].pc = "exited"

\* C19: the step that constructs a metronome yields one that is not
\* playing and reports the tempo and the meter it was given, and changes
\* neither the registry, nor a running flag, nor another metronome.
C19_ConstructionChangesNoPlayback ==
    [][(helper.stage = "none" /\ helper'.stage = "new")
       => LET m == handles'[helper'.h] IN
             /\ ~is_playing'[m.flag]
             /\ m.bpm = helper'.bpm
             /\ m.beats_per_measure = helper'.beats_per_measure
             /\ global' = global
             /\ \A i \in 1..Len(is_playing) : is_playing'[i] = is_playing[i]
             /\ \A h \in 1..Len(handles) : handles'[h] = handles[h]]_vars

\* A metronome has been constructed while another one is registered and
\* playing, its loop spawned.
C19_Witness ==
    /\ helper.stage = "new"
    /\ ~IsPlaying(handles[helper.h])
    /\ IsSome(global)
    /\ IsPlaying(Unwrap(global))
    /\ helper.g0 = global
    /\ Len(loops) >= 1

\* C20: strong(), subtle() and the default configuration read back the
\* literals of their definitions, and a metronome made by new_with_accent
\* holds the configuration it was given, field for field (new holds the
\* default one): with strong(), 1760 Hz and 440 Hz, 200 ms and 80 ms.
C20_PresetsAndStoredConfig ==
    helper.stage = "new" =>
        LET c == handles[helper.h].accent_config IN
            /\ helper.ctor = "new_with_accent" => c = helper.accent_config
            /\ helper.ctor = "new" => c = AccentConfig_default
            /\ helper.accent_config = strong
                 => /\ c.accent_frequency = 176000
                    /\ c.regular_frequency = 44000
                    /\ c.accent_duration = 200
                    /\ c.regular_duration = 80
            /\ helper.accent_config = subtle => c.accent_frequency = 66000
            /\ helper.accent_config = AccentConfig_default
                 => (c.accent_frequency = 88000 /\ c.regular_frequency = 44000)

\* new_with_accent(120.0, Some(4), AccentConfig::strong()) has returned.
C20_Witness ==
    /\ helper.stage = "new"
    /\ helper.ctor = "new_with_accent"
    /\ helper.accent_config = strong
    /\ helper.bpm = 120
    /\ helper.beats_per_measure = Some(4)
    /\ handles[helper.h].accent_config.accent_frequency = 176000

\* --------------------------------------- claims on the builder methods
\* The field each builder method names.
FieldOf ==
    [set_subdivisions          |-> "subdivisions",
     set_subdivision_frequency |-> "subdivision_frequency",
     set_subdivision_volume    |-> "subdivision_volume",
     set_subdivision_wave_type |-> "subdivision_wave_type"]

\* C21: the configuration a builder method returns has the new value in the
\* field the method names and, in each of the ten other fields, the value
\* of the configuration it was applied to.
C21_BuilderChangesOnlyItsField ==
    call.fn \in DOMAIN FieldOf =>
        LET f == FieldOf[call.fn] IN
            /\ DOMAIN call.out = DOMAIN call.self
            /\ Cardinality(DOMAIN call.self \ {f}) = 10
            /\ call.out[f] = call.arg
            /\ \A g \in DOMAIN call.self \ {f} : call.out[g] = call.self[g]

\* AccentConfig::with_triplets().set_subdivision_volume(1.0) has returned.
C21_Witness ==
    /\ call.fn = "set_subdivision_volume"
    /\ call.self = with_triplets
    /\ call.arg = 100
    /\ call.out.subdivision_volume = 100
    /\ call.out.subdivisions = 3

\* ---------------------------------------------- claims on the tone module
\* C22: for each of the four wave shapes and every phase of the cycle (and
\* every phase reduced into it) the amplitude sample returns lies within
\* [-1, 1]: its square is at most 1.
C22_AmplitudeWithinUnit ==
    call.fn = "sample" => call.out.sq <= Cycle * Cycle

\* The sawtooth has been sampled one step before the end of its cycle, where
\* it is highest: 10/12.
C22_Witness ==
    /\ call.fn = "sample"
    /\ call.wave = "Sawtooth"
    /\ call.phase = Cycle - 1
    /\ ~call.out.neg
    /\ call.out.sq = 100

\* ------------------------------------------- claims on the output target
\* The tick loops inside play_beep_with_wave_type_and_volume.
Rendering == {l \in 1..Len(loops) : loops[l].pc = "tone"}

\* C23: the output target is never written by two tick loops at the same
\* time: no state has two tick loops both inside tone rendering.
C23_OneLoopRenders == Cardinality(Rendering) <= 1

\* C24: the running flag is read once per tick, before the tone.  A loop
\* enters a tone only from its loop condition and only on reading the flag
\* true; a loop that evaluates its condition while the flag is false exits;
\* a loop that has left does not come back.  Hence a loop whose flag was
\* cleared and not set again begins no tone but the one whose check had
\* already passed.
C24_FlagReadBeforeEachTone ==
    [][\A l \in 1..Len(loops) :
          /\ (loops'[l].pc = "tone" /\ loops[l].pc # "tone") =>
                 (loops[l].pc = "check" /\ IsPlaying(loops[l].m))
          /\ (loops[l].pc = "check" /\ loops'[l].pc # "check"
                  /\ ~IsPlaying(loops[l].m)) =>
                 loops'[l].pc = "exited"
          /\ loops[l].pc \in {"exited", "failed"} =>
                 loops'[l].pc = loops[l].pc]_vars

\* A loop is inside the tone whose check had passed while its flag is
\* already false, and another loop has left on reading its flag false.
C24_Witness ==
    \E l, k \in 1..Len(loops) :
        /\ loops[l].pc = "tone"
        /\ ~IsPlaying(loops[l].m)
        /\ loops[k].pc = "exited"

\* ------------------------------------------------ claims on the mutex
\* The positions at which a call holds the guard of GLOBAL_METRONOME.
Holding == {"start_unlock", "stop_unlock", "stop_all_unlock"}

\* The next step of the call thread t is in, when t is inside a call.
Step(t) ==
    \/ StartUnlock(t) \/ StartClear(t) \/ StartSet(t) \/ StartSpawn(t)
    \/ StopLock(t) \/ StopUnlock(t)
    \/ StopAllUnlock(t) \/ StopAllClear(t)

\* C25: the registry mutex is held only between taking the holder (or
\* comparing it) and the end of that block: never while a flag is stored,
\* a thread is spawned or by a tick loop.  A call in progress can always
\* take its next step, except a stop waiting for the mutex, and then the
\* thread that holds the mutex can take the step that releases it: no
\* deadlock.
C25_MutexHeldOnlyForTheSwap ==
    /\ mutex # 0 => (mutex \in Threads /\ pc[mutex] \in Holding)
    /\ \A t \in Threads : pc[t] \in Holding => mutex = t
    /\ \A t \in Threads :
           pc[t] # "idle" =>
               \/ ENABLED (Step(t) /\ UNCHANGED ext)
               \/ /\ pc[t] = "stop_lock"
                  /\ mutex \in Threads \ {t}
                  /\ ENABLED (Step(mutex) /\ UNCHANGED ext)

\* A stop waits for the mutex that a start holds for its swap, while a tick
\* loop is running.
C25_Witness ==
    \E t, u \in Threads :
        /\ pc[t] = "stop_lock"
        /\ mutex = u
        /\ pc[u] = "start_unlock"
        /\ \E l \in 1..Len(loops) : Live(l)

\* --------------------------------------- claims on the dead holder
\* The registry holds the metronome of loop l.
Held(l) == IsCurrent(global, loops[l].m)

\* C29: the exit of a tick loop on a render error does not modify the
\* registry, and while a loop that has so exited is the registered
\* metronome's, the registry stops holding that metronome only in the
\* locked block of a start, of a stop_all, or of a stop on that metronome.
C29_DeadHolderStaysRegistered ==
    [][\A l \in 1..Len(loops) :
          /\ (loops[l].pc = "tone" /\ loops'[l].pc = "failed") =>
                 global' = global
          /\ (loops[l].pc = "failed" /\ Held(l)
                  /\ ~IsCurrent(global', loops[l].m)) =>
                 \E t \in Threads :
                     /\ pc[t] \notin Holding
                     /\ \/ pc'[t] = "start_unlock"
                        \/ pc'[t] = "stop_all_unlock"
                        \/ /\ pc'[t] = "stop_unlock"
                           /\ handles[arg[t]].id = loops[l].m.id]_vars

\* A loop has exited on a render error, no call is in progress, and the
\* registry holds its metronome, whose flag still reads true.
C29_Witness ==
    \E l \in 1..Len(loops) :
        /\ loops[l].pc = "failed"
        /\ Held(l)
        /\ IsPlaying(loops[l].m)
        /\ \A t \in Threads : Idle(t)
        /\ \A k \in 1..Len(loops) : k # l => ~Live(k)

\* ------------------------------------------- claims on the tick counters
\* C26: wherever the loop's counters exist, subdivision_count is below
\* subdivisions (with no subdivisions at all the thread ends at the division
\* before the counters are declared), and the branch that skips an iteration
\* has never been taken.
C26_SubdivisionIndexInRange ==
    tk.pc # "none" =>
        /\ tk.m.accent_config.subdivisions = 0 => tk.pc \in {"begin", "panicked"}
        /\ tk.pc # "begin" /\ tk.m.accent_config.subdivisions > 0 =>
               tk.subdivision_count < tk.m.accent_config.subdivisions
        /\ ~tk.skipped

\* A loop without subdivisions has played four ticks, each a main beat, and
\* is back at its condition without having skipped an iteration.
C26_Witness ==
    /\ tk.pc = "check"
    /\ tk.m.accent_config.subdivisions = 1
    /\ tk.ticks = 4
    /\ tk.beat_count = 4
    /\ tk.subdivision_count = 0
    /\ ~tk.skipped

\* C27: after a tone of duration d the sleep is max(0, period - d), the
\* period being subdivision_duration_ms: 0 when d exceeds the period, and
\* the thread sleeps only when the result is positive.
C27_SleepIsTheRestOfThePeriod ==
    (tk.pc \in {"sleep", "check", "classify", "exited"} /\ tk.ticks >= 1) =>
        LET d == tk.tone[2]
            period == tk.subdivision_duration_ms
        IN  /\ tk.sleep_duration >= 0
            /\ d <= period => tk.sleep_duration = period - d
            /\ d > period => tk.sleep_duration = 0
            /\ tk.pc = "sleep" => tk.sleep_duration > 0

\* A tone longer than the tick period has been played (the 200 ms accent of
\* `strong` with three ticks per beat at 120 bpm): the loop is back at its
\* condition without a sleep.
C27_Witness ==
    /\ tk.pc = "check"
    /\ tk.ticks >= 1
    /\ tk.tone[2] > tk.subdivision_duration_ms
    /\ tk.sleep_duration = 0

\* C28: the tone of a tick is the frequency, the duration and the wave shape
\* the configuration gives for the kind of the tick, at volume 1.0 for an
\* accent and for a regular beat and at subdivision_volume for a
\* subdivision.
C28_ToneOfTheKind ==
    (tk.pc # "none" /\ tk.kind # "none") =>
        LET c == tk.m.accent_config IN
            /\ tk.kind = "Accent" =>
                   tk.tone = <<c.accent_frequency, c.accent_duration,
                               c.accent_wave_type, 100>>
            /\ tk.kind = "Regular" =>
                   tk.tone = <<c.regular_frequency, c.regular_duration,
                               c.regular_wave_type, 100>>
            /\ tk.kind = "Subdivision" =>
                   tk.tone = <<c.subdivision_frequency, c.subdivision_duration,
                               c.subdivision_wave_type, c.subdivision_volume>>

\* A subdivision tick of a configuration whose three triples all differ is
\* being rendered below full volume.
C28_Witness ==
    /\ tk.pc = "tone"
    /\ tk.kind = "Subdivision"
    /\ tk.m.accent_config = technical_subdivisions
    /\ tk.tone[4] < 100

\* ------------------------------------------- claims on dropped handles
\* A call in progress has taken the helper's metronome out of the registry
\* and has yet to clear its flag.
Taken ==
    \E t \in Threads :
        /\ pc[t] \in {"start_unlock", "start_clear",
                      "stop_all_unlock", "stop_all_clear"}
        /\ IsSome(current[t])
        /\ Unwrap(current[t]).flag = handles[helper.h].flag

\* C30: after a start_* helper has returned and dropped the only handle of
\* the metronome it started, the metronome stays stoppable while it plays:
\* the registry holds a clone sharing its running flag (so that the next
\* stop_all or start of another metronome clears it), or a call has just
\* taken that clone and is about to clear the flag.
C30_OrphanStaysStoppable ==
    (helper.stage = "dropped" /\ IsPlaying(handles[helper.h])) =>
        \/ IsSome(global) /\ Unwrap(global).flag = handles[helper.h].flag
        \/ Taken

\* ------------------------------------------------ claims on the snapshot
\* C31: the loop and the registry entry work on clones taken by start.  A
\* step that changes the caller's metronome (set_bpm, set_beats_per_measure,
\* set_accent_config) changes neither the locals of the running loop nor the
\* registry; and from one spawn to the next the loop's tempo, meter and
\* configuration stay the ones it was spawned with, its tick period the one
\* computed from them, and every tone the one they give.
C31_LoopAndRegistryKeepSnapshot ==
    [][/\ (Len(handles') = Len(handles) /\ handles' # handles) =>
              (tk' = tk /\ global' = global)
       /\ (tk.pc # "none" /\ ~(pc[1] = "start_spawn" /\ pc'[1] = "idle")) =>
              /\ tk'.m = tk.m
              /\ tk.pc # "begin" =>
                     /\ tk'.beat_duration_ms = tk.beat_duration_ms
                     /\ tk'.subdivision_duration_ms = tk.subdivision_duration_ms
       /\ tk'.pc = "tone" =>
              /\ tk'.subdivision_duration_ms =
                     BeatDurationMs(tk'.m.bpm) \div tk'.m.accent_config.subdivisions
              /\ tk'.tone = ToneOf(tk'.m.accent_config, tk'.kind)
              /\ (tk'.kind = "Accent") =
                     IsAccent(tk'.m, U32(tk'), tk'.subdivision_count)]_vars

\* The loop is in its third tick or later, still at the tempo, the meter
\* and the configuration of its start, which the registry holds too, while
\* the caller's metronome has since been given another tempo, another meter
\* and another configuration.
C31_Witness ==
    /\ tk.pc = "tone"
    /\ tk.ticks >= 3
    /\ Len(handles) = 1
    /\ handles[1].bpm # tk.m.bpm
    /\ handles[1].beats_per_measure # tk.m.beats_per_measure
    /\ handles[1].accent_config # tk.m.accent_config
    /\ IsSome(global)
    /\ Unwrap(global) = tk.m
    /\ tk.subdivision_duration_ms =
           BeatDurationMs(tk.m.bpm) \div tk.m.accent_config.subdivisions

\* ------------------------------------------------ claims on identities
\* The ids drawn so far: those of the metronomes built and those of the
\* constructors in progress.
Drawn == {handles[h].id : h \in 1..Len(handles)}
             \cup {Unwrap(fetched[t]) : t \in Pending}

\* Every construction has an id of its own.
UniqueIds ==
    /\ \A h, k \in 1..Len(handles) : handles[h].id = handles[k].id => h = k
    /\ \A t, u \in Pending : fetched[t] = fetched[u] => t = u
    /\ \A t \in Pending, h \in 1..Len(handles) :
           Unwrap(fetched[t]) # handles[h].id
    /\ Cardinality(Drawn) = counter
    /\ \A i \in Drawn : i < counter

\* C32: separately constructed metronomes have different ids, also when
\* their constructors race; a constructor draws an id larger than every id
\* drawn before; and a stop empties the registry only when the metronome it
\* holds shares the flag of the stopped one, that is, is a clone of it.
C32_IdentitiesUnique ==
    [][/\ UniqueIds'
       /\ \A t \in Threads :
              (IsSome(fetched'[t]) /\ ~IsSome(fetched[t])) =>
                  \A i \in Drawn : i < Unwrap(fetched'[t])
       /\ \A t \in Threads :
              (pc[t] = "stop_lock" /\ pc'[t] = "stop_unlock"
                   /\ IsSome(global) /\ global' = None) =>
                  Unwrap(global).flag = handles[arg[t]].flag
       /\ \A t \in Threads :
              (pc[t] = "stop_lock" /\ pc'[t] = "stop_unlock"
                   /\ IsSome(global)
                   /\ Unwrap(global).flag # handles[arg[t]].flag) =>
                  global' = global]_vars

\* Two constructors raced (both had drawn their ids before either built its
\* metronome; the one that drew first built last), and a stop on one of the
\* two metronomes has returned while the registry holds the other.
C32_Witness ==
    /\ Len(handles) = 2
    /\ handles[1].id = 1
    /\ handles[2].id = 0
    /\ IsSome(global)
    /\ Unwrap(global).id = 0
    /\ last.op = "stop"
    /\ last.h = 1

\* ------------------------------------------- claims on the beat counter
\* C33: in a loop with a meter of n >= 1 beats the accents are exactly n
\* beats apart, however large beat_count has grown and across its largest
\* value: fewer than n main beats have been played since the last accent,
\* the last two accents are n beats apart, and the loop has not ended on
\* the increment of the counter.
C33_AccentsEvenlySpaced ==
    (/\ tk.pc # "none"
     /\ IsSome(tk.m.beats_per_measure)
     /\ Unwrap(tk.m.beats_per_measure) >= 1
     /\ tk.m.accent_config.subdivisions >= 1)
    => /\ tk.since < Unwrap(tk.m.beats_per_measure)
       /\ tk.gap \in {0, Unwrap(tk.m.beats_per_measure)}
       /\ tk.pc # "panicked"

\* ------------------------------------------- claims on loops per flag
\* C34: no two live tick loops read the same running flag.
C34_OneLiveLoopPerFlag ==
    \A l, k \in 1..Len(loops) :
        (Live(l) /\ Live(k) /\ loops[l].m.flag = loops[k].m.flag) => l = k

\* ------------------------------------- claims on sequential histories
\* C35: when the calls are made one at a time, between any two calls the
\* identities whose running flag is true are exactly the identity the
\* registry holds: none when it is empty, that one otherwise.
C35_RunningIsTheHolder ==
    (\A t \in Threads : Idle(t)) =>
        Running = IF IsSome(global) THEN {Unwrap(global).id} ELSE {}

\* Two metronomes have been started one after the other, both calls have
\* returned, and the second is the holder and the only one running.
C35_Witness ==
    /\ \A t \in Threads : Idle(t)
    /\ Len(loops) = 2
    /\ loops[1].m.id # loops[2].m.id
    /\ IsSome(global)
    /\ Unwrap(global).id = loops[2].m.id
    /\ Running = {loops[2].m.id}

\* ------------------------------------------ claims on the first tick
\* C37: the loop a start spawns has rendered nothing, slept for nothing and
\* skipped nothing when it hands its first tick to the tone module; its
\* counters are then 0, and the tick is an Accent for a metronome with a
\* meter of n >= 1 beats and a Regular beat for one without meter.  This
\* holds of the loop of a restart as of the loop of the first start.
C37_FirstTickOpensTheMeasure ==
    /\ tk.pc = "sleep" => tk.ticks >= 1
    /\ (tk.pc = "tone" /\ tk.ticks = 1) =>
          /\ tk.beat_count = 0 /\ tk.beat_top = 0
          /\ tk.subdivision_count = 0
          /\ tk.sleep_duration = 0 /\ ~tk.skipped
          /\ tk.kind = IF IsSome(tk.m.beats_per_measure) THEN "Accent"
                       ELSE "Regular"

C37_Witness ==
    /\ Len(loops) = 2
    /\ tk.pc = "tone" /\ tk.ticks = 1 /\ tk.kind = "Accent"
    /\ tk.m.beats_per_measure = Some(3)

\* ------------------------------------------- claims on stop when idle
\* C38: a stop(m) that ran alone on a metronome whose running flag was
\* false when it began (never started, or stopped already) has left every
\* running flag and the registry as they were; so a second stop(m) after a
\* stop(m) changes nothing.
C38_StopOnIdleChangesNothing ==
    (last.op = "stop" /\ ~last.f0[handles[last.h].flag]) =>
        (global = last.g0 /\ is_playing = last.f0)

\* ---------------------------------------------- claims on linearizability
\* C36: once every call has returned, the registry and the flags are those
\* some order of the same calls, made one at a time and respecting real
\* time, leaves.
C36_Linearizable ==
    ((\A t \in Threads : Idle(t)) /\ (\A i \in 1..Len(hist) : hist[i].ret)) =>
        \E p \in Orders :
            LET st == SeqRun([g |-> None,
                              f |-> [i \in 1..Len(is_playing) |-> FALSE]], p)
            IN  st.g = global /\ st.f = is_playing

====
